---------------------------- MODULE Spec2Model ----------------------------
(***************************************************************************)
(* A model of the speech-to-document service (shellef/s2d):                *)
(*   - core/patch_generator.py : validate_patch, apply_patch (RFC 6902     *)
(*     application through the jsonpatch library), parse_llm_response;     *)
(*   - backend/services/llm_service.py : LLMService.process_transcription; *)
(*   - backend/api/routes.py, backend/api/websocket.py : the request       *)
(*     handlers that run one update cycle per incoming text.               *)
(*                                                                         *)
(* JSON values are tagged records [t, v]:                                  *)
(*   "str" (v: the characters), "arr" (v: the elements),                   *)
(*   "obj" (v: a function from member names to values).                    *)
(* A Python object that is reachable both from a patch and from a          *)
(* document under construction is modelled by the placeholder "pv": the    *)
(* value object of the i-th operation of the patch, whose content lives in *)
(* the patch (patch[i].value).  jsonpatch stores operation["value"] itself *)
(* into the document it is building, it does not copy it.                  *)
(***************************************************************************)
EXTENDS Naturals, Sequences, FiniteSets, TLC

(***************************************************************************)
(* JSON values                                                             *)
(***************************************************************************)
Str(cs) == [t |-> "str", v |-> cs]
Arr(xs) == [t |-> "arr", v |-> xs]
Obj(f)  == [t |-> "obj", v |-> f]
\* The value object of operation i of the patch being applied (shared, not copied).
PV(i)   == [t |-> "pv", v |-> <<i>>]
\* An operation dictionary without a 'value' member.
NoValue == [t |-> "none", v |-> <<>>]
\* jsonpointer.EndOfList: what walking "-" into a list yields.
EOL     == [t |-> "eol", v |-> <<>>]

\* int(part) for the reference tokens matching jsonpointer's array-index
\* pattern 0|[1-9][0-9]* (the tokens the model draws paths from).
TokenInt == ("0" :> 0) @@ ("1" :> 1) @@ ("2" :> 2)

IsIndexToken(tok) == tok \in DOMAIN TokenInt

\* The Python object a tree position denotes.
Deref(patch, x) == IF x.t = "pv" THEN patch[x.v[1]].value ELSE x

\* The plain JSON value of x: what copy.deepcopy / json.dumps see.
RECURSIVE Resolve(_, _)
Resolve(patch, x) ==
    CASE x.t = "pv"  -> Resolve(patch, patch[x.v[1]].value)
      [] x.t = "arr" -> Arr([k \in 1..Len(x.v) |-> Resolve(patch, x.v[k])])
      [] x.t = "obj" -> Obj([k \in DOMAIN x.v |-> Resolve(patch, x.v[k])])
      [] OTHER       -> x

\* The patch as json.dumps would serialise it.
ResolvePatch(patch) ==
    [i \in 1..Len(patch) |-> [patch[i] EXCEPT !.value = Resolve(patch, patch[i].value)]]

(***************************************************************************)
(* jsonpointer: get_part, walk                                             *)
(* Exceptions are modelled by the class name in the field err ("" = none). *)
(***************************************************************************)
\* JsonPointer.get_part(doc, part); a str is a collections.abc.Sequence.
get_part(doc, part) ==
    IF doc.t = "obj" THEN [err |-> "", key |-> part, dash |-> FALSE, isint |-> FALSE, idx |-> 0]
    ELSE IF doc.t \in {"arr", "str"} THEN
        IF part = "-" THEN [err |-> "", key |-> part, dash |-> TRUE, isint |-> FALSE, idx |-> 0]
        ELSE IF ~IsIndexToken(part)
             THEN [err |-> "JsonPointerException", key |-> part, dash |-> FALSE, isint |-> FALSE, idx |-> 0]
             ELSE [err |-> "", key |-> part, dash |-> FALSE, isint |-> TRUE, idx |-> TokenInt[part]]
    ELSE [err |-> "JsonPointerException", key |-> part, dash |-> FALSE, isint |-> FALSE, idx |-> 0]

\* JsonPointer.walk(doc, part): one step down from the object doc.
walk(doc, part) ==
    LET gp == get_part(doc, part) IN
    IF gp.err # "" THEN [err |-> gp.err, child |-> EOL]
    ELSE IF doc.t \in {"arr", "str"} THEN
        IF gp.dash THEN [err |-> "", child |-> EOL]
        ELSE IF gp.idx >= Len(doc.v) THEN [err |-> "JsonPointerException", child |-> EOL]
        ELSE [err |-> "", child |-> IF doc.t = "arr" THEN doc.v[gp.idx + 1]
                                                     ELSE Str(<<doc.v[gp.idx + 1]>>)]
    ELSE IF part \in DOMAIN doc.v THEN [err |-> "", child |-> doc.v[part]]
         ELSE [err |-> "JsonPointerException", child |-> EOL]

\* Resolving a whole pointer (to_last followed by walk on the last part).
RECURSIVE Lookup(_, _, _)
Lookup(patch, node, parts) ==
    IF parts = <<>> THEN [err |-> "", child |-> node]
    ELSE LET w == walk(Deref(patch, node), parts[1]) IN
         IF w.err # "" THEN w ELSE Lookup(patch, w.child, Tail(parts))

InsertAt(s, i, x) == SubSeq(s, 1, i) \o <<x>> \o SubSeq(s, i + 1, Len(s))
RemoveAt(s, i)    == SubSeq(s, 1, i) \o SubSeq(s, i + 2, Len(s))
SetKey(f, k, x)   == (k :> x) @@ f
DelKey(f, k)      == [j \in (DOMAIN f) \ {k} |-> f[j]]

\* The container node with the child reached through part replaced.
Put(node, part, child) ==
    IF node.t = "obj" THEN Obj([node.v EXCEPT ![part] = child])
    ELSE Arr([node.v EXCEPT ![TokenInt[part] + 1] = child])

OpFail(e, patch, node) == [err |-> e, patch |-> patch, node |-> node]
OpDone(patch, node)    == [err |-> "", patch |-> patch, node |-> node]

(***************************************************************************)
(* jsonpatch operations at the last step of the pointer: subobj is the     *)
(* object to_last returned, tok the last reference token.                  *)
(***************************************************************************)
\* AddOperation.apply after to_last.
\* AddOperation.apply overwriting the element at an index.
AddLeaf_Overwrite(patch, subobj, tok, val) ==
    LET gp == get_part(subobj, tok) IN
    IF gp.err # "" THEN OpFail(gp.err, patch, subobj)
    ELSE IF subobj.t = "arr" THEN
        IF gp.dash THEN OpDone(patch, Arr(Append(subobj.v, val)))
        ELSE IF gp.idx >= Len(subobj.v) THEN OpFail("JsonPatchConflict", patch, subobj)
        ELSE OpDone(patch, Arr([subobj.v EXCEPT ![gp.idx + 1] = val]))
    ELSE IF subobj.t = "obj" THEN OpDone(patch, Obj(SetKey(subobj.v, tok, val)))
    ELSE OpFail("JsonPatchConflict", patch, subobj)

AddLeaf(patch, subobj, tok, val) ==
    LET gp == get_part(subobj, tok) IN
    IF gp.err # "" THEN OpFail(gp.err, patch, subobj)
    ELSE IF subobj.t = "arr" THEN
        IF gp.dash THEN OpDone(patch, Arr(Append(subobj.v, val)))
        ELSE IF gp.idx > Len(subobj.v) THEN OpFail("JsonPatchConflict", patch, subobj)
        ELSE OpDone(patch, Arr(InsertAt(subobj.v, gp.idx, val)))
    ELSE IF subobj.t = "obj" THEN OpDone(patch, Obj(SetKey(subobj.v, tok, val)))
    ELSE OpFail("JsonPatchConflict", patch, subobj)

\* ReplaceOperation.apply creating a member that is missing.
ReplaceLeaf_Upsert(patch, subobj, tok, val) ==
    LET gp == get_part(subobj, tok) IN
    IF gp.err # "" THEN OpFail(gp.err, patch, subobj)
    ELSE IF tok = "-" THEN OpFail("InvalidJsonPatch", patch, subobj)
    ELSE IF subobj.t = "arr" THEN
        IF gp.idx >= Len(subobj.v) THEN OpFail("JsonPatchConflict", patch, subobj)
        ELSE OpDone(patch, Arr([subobj.v EXCEPT ![gp.idx + 1] = val]))
    ELSE IF subobj.t = "obj" THEN OpDone(patch, Obj(SetKey(subobj.v, tok, val)))
    ELSE OpFail("JsonPatchConflict", patch, subobj)

\* ReplaceOperation.apply after to_last.
ReplaceLeaf(patch, subobj, tok, val) ==
    LET gp == get_part(subobj, tok) IN
    IF gp.err # "" THEN OpFail(gp.err, patch, subobj)
    ELSE IF tok = "-" THEN OpFail("InvalidJsonPatch", patch, subobj)
    ELSE IF subobj.t = "arr" THEN
        IF gp.idx >= Len(subobj.v) THEN OpFail("JsonPatchConflict", patch, subobj)
        ELSE OpDone(patch, Arr([subobj.v EXCEPT ![gp.idx + 1] = val]))
    ELSE IF subobj.t = "obj" THEN
        IF tok \notin DOMAIN subobj.v THEN OpFail("JsonPatchConflict", patch, subobj)
        ELSE OpDone(patch, Obj(SetKey(subobj.v, tok, val)))
    ELSE OpFail("JsonPatchConflict", patch, subobj)

\* RemoveOperation.apply after to_last.
RemoveLeaf(patch, subobj, tok) ==
    LET gp == get_part(subobj, tok) IN
    IF gp.err # "" THEN OpFail(gp.err, patch, subobj)
    ELSE IF subobj.t \in {"arr", "str"} /\ ~gp.isint THEN OpFail("JsonPointerException", patch, subobj)
    ELSE IF subobj.t = "arr" THEN
        IF gp.idx >= Len(subobj.v) THEN OpFail("JsonPatchConflict", patch, subobj)
        ELSE OpDone(patch, Arr(RemoveAt(subobj.v, gp.idx)))
    ELSE IF subobj.t = "obj" THEN
        IF tok \notin DOMAIN subobj.v THEN OpFail("JsonPatchConflict", patch, subobj)
        ELSE OpDone(patch, Obj(DelKey(subobj.v, tok)))
    ELSE OpFail("TypeError", patch, subobj)

Leaf(patch, subobj, tok, kind, val) ==
    CASE kind = "add"     -> AddLeaf(patch, subobj, tok, val)
      [] kind = "replace" -> ReplaceLeaf(patch, subobj, tok, val)
      [] OTHER            -> RemoveLeaf(patch, subobj, tok)

\* to_last followed by the operation, on the object graph: a change below a
\* "pv" position is a change of the patch's own value object.
RECURSIVE Mutate(_, _, _, _, _)
Mutate(patch, node, parts, kind, val) ==
    IF node.t = "pv" THEN
        LET i == node.v[1]
            r == Mutate(patch, patch[i].value, parts, kind, val)
        IN  IF r.err # "" THEN OpFail(r.err, patch, node)
            ELSE OpDone([r.patch EXCEPT ![i].value = r.node], node)
    ELSE IF Len(parts) = 1 THEN Leaf(patch, node, parts[1], kind, val)
    ELSE LET w == walk(node, parts[1]) IN
         IF w.err # "" THEN OpFail(w.err, patch, node)
         ELSE LET r == Mutate(patch, w.child, Tail(parts), kind, val) IN
              IF r.err # "" THEN OpFail(r.err, patch, node)
              ELSE OpDone(r.patch, IF r.node = w.child THEN node ELSE Put(node, parts[1], r.node))

\* What the operation stores into the document: operation["value"] itself.
\* A str is immutable, so sharing it is not observable.
StoredValue(patch, i) ==
    IF patch[i].value.t \in {"arr", "obj"} THEN PV(i) ELSE patch[i].value

\* The operations whose pointer is the empty string (part is None).
RootOp(patch, i, cur) ==
    LET op   == patch[i]
        root == Deref(patch, cur)
    IN  CASE op.op = "replace" -> OpDone(patch, StoredValue(patch, i))
          [] op.op = "add" ->
                IF root.t = "obj" THEN OpDone(patch, StoredValue(patch, i))
                ELSE OpFail("TypeError", patch, cur)
          [] OTHER ->
                IF root.t \in {"arr", "str"} THEN OpFail("JsonPointerException", patch, cur)
                ELSE OpFail("JsonPatchConflict", patch, cur)

\* TestOperation.apply.
TestOp(patch, i, cur) ==
    LET op == patch[i]
        r  == Lookup(patch, cur, op.path)
    IN  IF r.err # "" THEN OpFail("JsonPatchTestFailed", patch, cur)
        ELSE IF op.value = NoValue THEN OpFail("InvalidJsonPatch", patch, cur)
        ELSE IF Resolve(patch, r.child) # Resolve(patch, op.value)
             THEN OpFail("JsonPatchTestFailed", patch, cur)
        ELSE OpDone(patch, cur)

\* What apply returns for operation op whose outcome is r; newroot says that
\* the object returned is not the object the operation was applied to.
OpResult(op, r) ==
    [err |-> r.err, patch |-> r.patch, node |-> r.node,
     newroot |-> r.err = "" /\ op.path = <<>> /\ op.op \in {"add", "replace"}]

\* PatchOperation.apply(obj) for operation i: [err, patch, node, newroot].
ApplyOp(patch, i, cur) ==
    OpResult(patch[i],
             IF patch[i].op = "test" THEN TestOp(patch, i, cur)
             ELSE IF patch[i].op \in {"add", "replace"} /\ patch[i].value = NoValue
                  THEN OpFail("InvalidJsonPatch", patch, cur)
             ELSE IF patch[i].path = <<>> THEN RootOp(patch, i, cur)
             ELSE Mutate(patch, cur, patch[i].path, patch[i].op, StoredValue(patch, i)))

\* The operations jsonpatch.JsonPatch knows (JsonPatch.operations); move and
\* copy need a 'from' member, which the modelled operations never carry.
KnownOps == {"add", "replace", "remove", "test"}

\* JsonPatch.apply: for operation in self._ops: obj = operation.apply(obj).
\* orig is the caller's document object, linked says that cur still is that
\* object (in_place) so that what an operation does to cur is done to orig.
RECURSIVE RunOps(_, _, _, _, _)

\* The loop after operation i gave r: the exception leaves it, otherwise it
\* goes on with the object the operation returned.
RunRest(r, patch, i, cur, orig, linked) ==
    IF r.err # ""
    THEN [raised |-> r.err, patch |-> patch, result |-> cur, docAfter |-> orig, applied |-> i - 1]
    ELSE RunOps(r.patch, i + 1, r.node, IF linked /\ ~r.newroot THEN r.node ELSE orig,
                linked /\ ~r.newroot)

RunOps(patch, i, cur, orig, linked) ==
    IF i > Len(patch)
    THEN [raised |-> "", patch |-> patch, result |-> cur, docAfter |-> orig, applied |-> i - 1]
    ELSE RunRest(ApplyOp(patch, i, cur), patch, i, cur, orig, linked)

\* JsonPatch.apply taking the operations from the last to the first.
JsonPatchApply_Reversed(patch, document, in_place) ==
    IF \E i \in 1..Len(patch) : patch[i].op \notin KnownOps
    THEN [raised |-> "InvalidJsonPatch", patch |-> patch, result |-> document,
          docAfter |-> document, applied |-> 0]
    ELSE RunOps([i \in 1..Len(patch) |-> patch[Len(patch) + 1 - i]], 1,
                IF in_place THEN document ELSE Resolve(patch, document),
                document, in_place)

\* jsonpatch.JsonPatch(patch).apply(document, in_place): the constructor
\* rejects an unknown 'op' before anything is applied; apply deep-copies the
\* document unless in_place.
JsonPatchApply(patch, document, in_place) ==
    IF \E i \in 1..Len(patch) : patch[i].op \notin KnownOps
    THEN [raised |-> "InvalidJsonPatch", patch |-> patch, result |-> document,
          docAfter |-> document, applied |-> 0]
    ELSE RunOps(patch, 1, IF in_place THEN document ELSE Resolve(patch, document),
                document, in_place)

\* The subclasses of jsonpatch.JsonPatchException.
JsonPatchExceptions == {"InvalidJsonPatch", "JsonPatchConflict", "JsonPatchTestFailed"}

(***************************************************************************)
(* core/patch_generator.py                                                 *)
(* A modelled patch is always a list (a sequence of operation records), so *)
(* isinstance(patch, list) holds; the document may be any JSON value.      *)
(***************************************************************************)
\* What validate_patch returns after the dry run r: (True, ""), or (False,
\* "Invalid patch: ...") for a JsonPatchException, or (False, "Unexpected
\* error: ...") for any other exception.
Verdict(r) ==
    [ok       |-> r.raised = "",
     msg      |-> IF r.raised = "" THEN ""
                  ELSE IF r.raised \in JsonPatchExceptions THEN "Invalid patch"
                  ELSE "Unexpected error",
     patch    |-> r.patch,
     docAfter |-> r.docAfter,
     applied  |-> r.applied]

\* validate_patch with the dry run done on the document itself (in_place).
validate_patch_InPlace(patch, document) ==
    Verdict(JsonPatchApply(patch, document, TRUE))

\* validate_patch(patch, document) -> (ok, msg); msg is the prefix of the
\* message, before str(e).  patch and docAfter are the two argument objects
\* as the call leaves them.
validate_patch(patch, document) ==
    IF document.t # "obj"
    THEN [ok |-> FALSE, msg |-> "Document must be a dictionary", patch |-> patch,
          docAfter |-> document, applied |-> 0]
    ELSE Verdict(JsonPatchApply(patch, document, FALSE))

\* apply_patch applying onto the caller's document instead of a copy.
apply_patch_InPlace(patch, document) ==
    IF document.t # "obj"
    THEN [raised |-> "ValueError", patch |-> patch, result |-> document,
          docAfter |-> document, applied |-> 0]
    ELSE JsonPatchApply(patch, document, TRUE)

\* apply_patch(patch, document): the new document, or the exception raised.
apply_patch(patch, document) ==
    IF document.t # "obj"
    THEN [raised |-> "ValueError", patch |-> patch, result |-> document,
          docAfter |-> document, applied |-> 0]
    ELSE JsonPatchApply(patch, document, FALSE)

(***************************************************************************)
(* Text: a Python str is the sequence of its characters.                   *)
(***************************************************************************)
\* str.isspace() of one character.
IsSpace(c) == c \in {" ", "\n"}

\* None where a str is expected.
PyNone == <<"<None>">>

RECURSIVE lstrip(_)
lstrip(s) == IF s # <<>> /\ IsSpace(Head(s)) THEN lstrip(Tail(s)) ELSE s

RECURSIVE rstrip(_)
rstrip(s) == IF s # <<>> /\ IsSpace(s[Len(s)]) THEN rstrip(SubSeq(s, 1, Len(s) - 1)) ELSE s

\* str.strip()
strip(s) == rstrip(lstrip(s))

\* not text or not text.strip()
IsBlank(s) == s = PyNone \/ s = <<>> \/ strip(s) = <<>>

\* str.split(): the maximal runs of non-space characters.
RECURSIVE split(_)
split(s) ==
    LET t == lstrip(s) IN
    IF t = <<>> THEN <<>>
    ELSE LET k == CHOOSE k \in 1..Len(t) :
                      /\ \A j \in 1..k : ~IsSpace(t[j])
                      /\ k = Len(t) \/ IsSpace(t[k + 1])
         IN <<SubSeq(t, 1, k)>> \o split(SubSeq(t, k + 1, Len(t)))

\* " ".join(words)
RECURSIVE join(_)
join(words) ==
    IF words = <<>> THEN <<>>
    ELSE IF Len(words) = 1 THEN words[1]
    ELSE words[1] \o <<" ">> \o join(Tail(words))

\* The Python slice xs[-n:] for n >= 0 (xs[-0:] is all of xs).
LastN(xs, n) ==
    IF n = 0 \/ n >= Len(xs) THEN xs ELSE SubSeq(xs, Len(xs) - n + 1, Len(xs))

(***************************************************************************)
(* core/transcription_buffer.py                                            *)
(***************************************************************************)
\* append without the guard against blank text.
append_NoGuard(full_text, text) ==
    IF text = PyNone THEN [ok |-> FALSE, full_text |-> full_text]
    ELSE [ok |-> TRUE,
          full_text |-> IF full_text # <<>> THEN full_text \o <<" ">> \o strip(text)
                        ELSE strip(text)]

\* append collapsing the whitespace inside the text.
append_Collapse(full_text, text) ==
    IF IsBlank(text) THEN [ok |-> FALSE, full_text |-> full_text]
    ELSE [ok |-> TRUE,
          full_text |-> IF full_text # <<>> THEN full_text \o <<" ">> \o join(split(text))
                        ELSE join(split(text))]

\* append overwriting the transcript with the new text.
append_Replace(full_text, text) ==
    IF IsBlank(text) THEN [ok |-> FALSE, full_text |-> full_text]
    ELSE [ok |-> TRUE, full_text |-> strip(text)]

\* TranscriptionBuffer.append(text) on a buffer holding full_text: the value
\* returned and the buffer's new full_text.
append(full_text, text) ==
    IF IsBlank(text) THEN [ok |-> FALSE, full_text |-> full_text]
    ELSE [ok |-> TRUE,
          full_text |-> IF full_text # <<>> THEN full_text \o <<" ">> \o strip(text)
                        ELSE strip(text)]

\* get_tail keeping the first window_size words instead of the last.
get_tail_Head(full_text, window_size) ==
    IF full_text = <<>> THEN <<>>
    ELSE LET words == split(full_text) IN
         IF Len(words) <= window_size THEN full_text
         ELSE join(SubSeq(words, 1, window_size))

\* get_tail without the window: the whole text whatever its length.
get_tail_WholeText(full_text, window_size) == full_text

\* get_tail re-joining the words whatever their number.
get_tail_Rejoin(full_text, window_size) ==
    IF full_text = <<>> THEN <<>> ELSE join(LastN(split(full_text), window_size))

\* TranscriptionBuffer.get_tail() with the buffer's window_size.
get_tail(full_text, window_size) ==
    IF full_text = <<>> THEN <<>>
    ELSE LET words == split(full_text) IN
         IF Len(words) <= window_size THEN full_text
         ELSE join(LastN(words, window_size))

\* TranscriptionBuffer.get_full_text()
get_full_text(full_text) == full_text

\* TranscriptionBuffer.word_count()
word_count(full_text) == IF full_text = <<>> THEN 0 ELSE Len(split(full_text))

(***************************************************************************)
(* core/patch_generator.py: parse_llm_response                             *)
(* A response is the sequence of its lexical elements: whitespace (" ",    *)
(* "\n"), the fence ```, the word json, the JSON punctuation [ ] { } , :,  *)
(* a JSON string literal (an element of StringLits, standing for the       *)
(* quoted string with that content) and the bare word x (prose).  No       *)
(* string literal of the model holds a bracket or a backtick.              *)
(***************************************************************************)
\* The code fence (three backticks).
Fence == "<fence>"

\* The contents of the JSON string literals.
StringLits ==
    {"op", "path", "value", "add", "replace", "remove", "test", "move",
     "/process_name", "/actors", "/actors/-", "/actors/0", "/_note", "v", "k"}

\* The reference tokens of a JSON Pointer string (JsonPointer(path).parts).
PathParts ==
    ("/process_name" :> <<"process_name">>) @@ ("/actors" :> <<"actors">>)
      @@ ("/actors/-" :> <<"actors", "-">>) @@ ("/actors/0" :> <<"actors", "0">>)
      @@ ("/_note" :> <<"_note">>)
      @@ ("/actors/-_add_0" :> <<"actors", "-_add_0">>)
      @@ ("/actors/-_add_1" :> <<"actors", "-_add_1">>)

\* The first position from i on that holds no whitespace.
RECURSIVE SkipWs(_, _)
SkipWs(text, i) ==
    IF i <= Len(text) /\ IsSpace(text[i]) THEN SkipWs(text, i + 1) ELSE i

\* text[i], or end-of-text.
At(text, i) == IF i \in 1..Len(text) THEN text[i] ELSE "<end>"

\* The smallest element of a non-empty set of numbers.
Least(S) == CHOOSE i \in S : \A j \in S : i <= j

\* json.loads: the decoder's result at a position (ok, the value, the
\* position after it).
JFail == [ok |-> FALSE, val |-> NoValue, next |-> 0]
JOk(val, next) == [ok |-> TRUE, val |-> val, next |-> next]

RECURSIVE JValue(_, _), JElems(_, _, _), JMembers(_, _, _)

\* After an element v of an array: "," and the next element, or "]".
JAfterElem(text, v, acc) ==
    IF ~v.ok THEN JFail
    ELSE IF At(text, SkipWs(text, v.next)) = ","
         THEN JElems(text, SkipWs(text, v.next) + 1, Append(acc, v.val))
    ELSE IF At(text, SkipWs(text, v.next)) = "]"
         THEN JOk(Arr(Append(acc, v.val)), SkipWs(text, v.next) + 1)
    ELSE JFail

JElems(text, i, acc) == JAfterElem(text, JValue(text, i), acc)

\* After a member key: v of an object: "," and the next member, or "}".
\* A member given twice keeps its last value.
JAfterMember(text, key, v, f) ==
    IF ~v.ok THEN JFail
    ELSE IF At(text, SkipWs(text, v.next)) = ","
         THEN JMembers(text, SkipWs(text, v.next) + 1,
                       [k \in DOMAIN f \cup {key} |-> IF k = key THEN v.val ELSE f[k]])
    ELSE IF At(text, SkipWs(text, v.next)) = "}"
         THEN JOk(Obj([k \in DOMAIN f \cup {key} |-> IF k = key THEN v.val ELSE f[k]]),
                  SkipWs(text, v.next) + 1)
    ELSE JFail

\* A member: a string literal at j, ":" and a value.
JMemberAt(text, j, f) ==
    IF At(text, j) \notin StringLits THEN JFail
    ELSE IF At(text, SkipWs(text, j + 1)) # ":" THEN JFail
    ELSE JAfterMember(text, text[j], JValue(text, SkipWs(text, j + 1) + 1), f)

JMembers(text, i, f) == JMemberAt(text, SkipWs(text, i), f)

\* The value that starts at j.
JValueAt(text, j) ==
    IF At(text, j) \in StringLits THEN JOk(Str(<<text[j]>>), j + 1)
    ELSE IF At(text, j) = "[" THEN
        IF At(text, SkipWs(text, j + 1)) = "]"
        THEN JOk(Arr(<<>>), SkipWs(text, j + 1) + 1)
        ELSE JElems(text, j + 1, <<>>)
    ELSE IF At(text, j) = "{" THEN
        IF At(text, SkipWs(text, j + 1)) = "}"
        THEN JOk(Obj(<<>>), SkipWs(text, j + 1) + 1)
        ELSE JMembers(text, j + 1, <<>>)
    ELSE JFail

JValue(text, i) == JValueAt(text, SkipWs(text, i))

\* The document decoded, provided nothing but whitespace follows it.
JWhole(text, r) ==
    IF r.ok /\ SkipWs(text, r.next) > Len(text) THEN r ELSE JFail

\* json.loads(text): ok is FALSE for a JSONDecodeError.
json_loads(text) == JWhole(text, JValue(text, 1))

\* json.dumps of a JSON value, with its ", " and ": " separators.  The
\* members of an operation object are written op, path, value, the members
\* of any other object in one fixed order.
MemberOrder == <<"op", "path", "value", "k">>

RECURSIVE json_dumps(_), DumpItems(_, _), DumpMembers(_, _, _)
DumpItems(xs, i) ==
    IF i > Len(xs) THEN <<>>
    ELSE (IF i > 1 THEN <<",", " ">> ELSE <<>>) \o json_dumps(xs[i]) \o DumpItems(xs, i + 1)

DumpMembers(f, i, first) ==
    IF i > Len(MemberOrder) THEN <<>>
    ELSE IF MemberOrder[i] \notin DOMAIN f THEN DumpMembers(f, i + 1, first)
    ELSE (IF first THEN <<>> ELSE <<",", " ">>)
             \o <<MemberOrder[i], ":", " ">> \o json_dumps(f[MemberOrder[i]])
             \o DumpMembers(f, i + 1, FALSE)

json_dumps(x) ==
    CASE x.t = "str" -> <<x.v[1]>>
      [] x.t = "arr" -> <<"[">> \o DumpItems(x.v, 1) \o <<"]">>
      [] x.t = "obj" -> <<"{">> \o DumpMembers(x.v, 1, TRUE) \o <<"}">>

\* The match of r'```(?:json)?\s*(\[.*?\])\s*```' that starts at the fence
\* at i: from is where the group would start, ends the positions of a "]"
\* that whitespace and a fence follow.
BlockFrom(text, i) ==
    SkipWs(text, IF At(text, i + 1) = "json" THEN i + 2 ELSE i + 1)
BlockEnds(text, from) ==
    {e \in (from + 1)..Len(text) :
        text[e] = "]" /\ At(text, SkipWs(text, e + 1)) = Fence}
BlockAt(text, i) ==
    text[i] = Fence /\ At(text, BlockFrom(text, i)) = "[" /\ BlockEnds(text, BlockFrom(text, i)) # {}

\* The starts of the matches of r'\[.*?\]': a "[" with a "]" after it.
ArrayStarts(text) ==
    {k \in 1..Len(text) : text[k] = "[" /\ \E e \in (k + 1)..Len(text) : text[e] = "]"}

\* The text handed to json.loads and the rule that selected it: group 1 of
\* the leftmost code block match, else the leftmost match of the array
\* pattern, else the stripped response.
SelectFrom(text, k, ends, rule) == [rule |-> rule, json_str |-> SubSeq(text, k, Least(ends))]

\* Selection that tries the bare array pattern before the code block.
Selected_ArrayFirst(text) ==
    IF ArrayStarts(text) # {}
    THEN SelectFrom(text, Least(ArrayStarts(text)),
                    {e \in (Least(ArrayStarts(text)) + 1)..Len(text) : text[e] = "]"},
                    "array")
    ELSE [rule |-> "whole", json_str |-> strip(text)]

Selected(text) ==
    IF \E i \in 1..Len(text) : BlockAt(text, i)
    THEN SelectFrom(text, BlockFrom(text, Least({i \in 1..Len(text) : BlockAt(text, i)})),
                    BlockEnds(text, BlockFrom(text, Least({i \in 1..Len(text) : BlockAt(text, i)}))),
                    "code_block")
    ELSE IF ArrayStarts(text) # {}
    THEN SelectFrom(text, Least(ArrayStarts(text)),
                    {e \in (Least(ArrayStarts(text)) + 1)..Len(text) : text[e] = "]"},
                    "array")
    ELSE [rule |-> "whole", json_str |-> strip(text)]

\* The field checks asking every operation for a value.
BadOperation_ValueAlways(x) ==
    \/ x.t # "obj"
    \/ "op" \notin DOMAIN x.v
    \/ "path" \notin DOMAIN x.v
    \/ "value" \notin DOMAIN x.v

\* An element of the decoded list that the field checks reject.
BadOperation(x) ==
    \/ x.t # "obj"
    \/ "op" \notin DOMAIN x.v
    \/ "path" \notin DOMAIN x.v
    \/ x.v["op"] \notin {Str(<<"remove">>), Str(<<"test">>)} /\ "value" \notin DOMAIN x.v

\* The first element of the decoded list the field checks reject, 0 if none.
FirstBadOp(ops) ==
    LET bad == {i \in 1..Len(ops) : BadOperation(ops[i])}
    IN IF bad = {} THEN 0 ELSE Least(bad)

\* An operation dictionary as the record of its op, path and value members.
OpRecord(x) ==
    [op |-> x.v["op"].v[1], path |-> PathParts[x.v["path"].v[1]],
     value |-> IF "value" \in DOMAIN x.v THEN x.v["value"] ELSE NoValue]

\* The inverse: the dictionary of an operation record.
OpDict(o) ==
    Obj(("op" :> Str(<<o.op>>))
          @@ ("path" :> Str(<<CHOOSE s \in DOMAIN PathParts : PathParts[s] = o.path>>))
          @@ (IF o.value = NoValue THEN <<>> ELSE ("value" :> o.value)))

\* json.dumps of a patch.
DumpPatch(patch) == json_dumps(Arr([i \in 1..Len(patch) |-> OpDict(patch[i])]))

ParseFailed(sel) ==
    [err |-> "ValueError", patch |-> <<>>, rule |-> sel.rule, json_str |-> sel.json_str]

\* From json.loads on: d is what it gave for the selected text sel.
Decoded(sel, d) ==
    IF ~d.ok THEN ParseFailed(sel)
    ELSE IF d.val.t # "arr" THEN ParseFailed(sel)
    ELSE IF FirstBadOp(d.val.v) # 0 THEN ParseFailed(sel)
    ELSE [err |-> "", patch |-> [i \in 1..Len(d.val.v) |-> OpRecord(d.val.v[i])],
          rule |-> sel.rule, json_str |-> sel.json_str]

ParseSelected(sel) == Decoded(sel, json_loads(sel.json_str))

\* parse_llm_response raising on a blank response like on any other text.
parse_llm_response_NoBlankGuard(response) ==
    IF response = PyNone THEN ParseFailed([rule |-> "whole", json_str |-> <<>>])
    ELSE ParseSelected(Selected(response))

\* parse_llm_response taking the bare array before the code block.
parse_llm_response_ArrayFirst(response) ==
    IF IsBlank(response)
    THEN [err |-> "", patch |-> <<>>, rule |-> "blank", json_str |-> <<>>]
    ELSE ParseSelected(Selected_ArrayFirst(response))

\* parse_llm_response(response): the patch, or err = "ValueError"; rule and
\* json_str are the text it decoded and how it was selected.
parse_llm_response(response) ==
    IF IsBlank(response)
    THEN [err |-> "", patch |-> <<>>, rule |-> "blank", json_str |-> <<>>]
    ELSE ParseSelected(Selected(response))

\* The responses of the generator in the service: by form, "empty" (no
\* characters), "blank" (whitespace), "prose" (text holding no JSON) or
\* "array" (the JSON array of the operations ops, as json.dumps writes it).
Response(form, ops) == [form |-> form, ops |-> ops]

ResponseText(response) ==
    CASE response.form = "empty" -> <<>>
      [] response.form = "blank" -> <<" ">>
      [] response.form = "prose" -> <<"x", " ", "x">>
      [] response.form = "array" -> DumpPatch(response.ops)

(***************************************************************************)
(* core/patch_generator.py: normalize_patch                                *)
(* Here an operation carries its path as the string it is in the dict, and *)
(* the dict path_ops is the sequence of its entries in insertion order.    *)
(***************************************************************************)
\* path_ops[key] = operation keeping the entry that is there.
DictSet_KeepFirst(path_ops, key, operation) ==
    IF \E i \in 1..Len(path_ops) : path_ops[i].key = key
    THEN path_ops
    ELSE Append(path_ops, [key |-> key, operation |-> operation])

\* path_ops[key] = operation: a key that is there keeps its position.
DictSet(path_ops, key, operation) ==
    IF \E i \in 1..Len(path_ops) : path_ops[i].key = key
    THEN [i \in 1..Len(path_ops) |->
            IF path_ops[i].key = key THEN [key |-> key, operation |-> operation]
            ELSE path_ops[i]]
    ELSE Append(path_ops, [key |-> key, operation |-> operation])

\* The key an operation is stored under: its path for a replace, otherwise
\* f"{path}_{op_type}_{len(path_ops)}".
NormalizeKey(operation, path_ops) ==
    IF operation.op = "replace" THEN operation.path
    ELSE operation.path \o "_" \o operation.op \o "_" \o ToString(Len(path_ops))

\* for operation in patch: ...
RECURSIVE NormalizeLoop(_, _, _)
NormalizeLoop(patch, i, path_ops) ==
    IF i > Len(patch) THEN path_ops
    ELSE NormalizeLoop(patch, i + 1,
                       DictSet(path_ops, NormalizeKey(patch[i], path_ops), patch[i]))

\* list(path_ops.values())
DictValues(path_ops) == [i \in 1..Len(path_ops) |-> path_ops[i].operation]

\* normalize_patch(patch)
normalize_patch(patch) == DictValues(NormalizeLoop(patch, 1, <<>>))

(***************************************************************************)
(* core/prompt_builder.py                                                  *)
(***************************************************************************)
\* get_empty_document()
\* The empty document without its scope member.
get_empty_document_NoScope ==
    Obj(("process_name" :> Str(<<>>)) @@ ("process_goal" :> Str(<<>>))
        @@ ("actors" :> Arr(<<>>)) @@ ("systems" :> Arr(<<>>)) @@ ("main_flow" :> Arr(<<>>))
        @@ ("exceptions" :> Arr(<<>>)) @@ ("metrics" :> Arr(<<>>))
        @@ ("open_questions" :> Arr(<<>>)))

get_empty_document ==
    Obj(("process_name" :> Str(<<>>)) @@ ("process_goal" :> Str(<<>>))
        @@ ("scope" :> Obj(("start_trigger" :> Str(<<>>)) @@ ("end_condition" :> Str(<<>>))
                           @@ ("in_scope" :> Arr(<<>>)) @@ ("out_of_scope" :> Arr(<<>>))))
        @@ ("actors" :> Arr(<<>>)) @@ ("systems" :> Arr(<<>>)) @@ ("main_flow" :> Arr(<<>>))
        @@ ("exceptions" :> Arr(<<>>)) @@ ("metrics" :> Arr(<<>>))
        @@ ("open_questions" :> Arr(<<>>)))

\* build_update_prompt taking a third positional parameter (patch_history).
build_update_prompt_WithHistory(args) ==
    IF Len(args) < 2 \/ Len(args) > 3 THEN [err |-> "TypeError"] ELSE [err |-> ""]

\* build_update_prompt(*args): the function is declared with the two
\* parameters transcription_tail and current_document, so a call with any
\* other number of positional arguments raises TypeError; otherwise it
\* returns the two messages (their text plays no part in the state).
build_update_prompt(args) ==
    IF Len(args) # 2 THEN [err |-> "TypeError"] ELSE [err |-> ""]

(***************************************************************************)
(* backend/services/llm_service.py: LLMService.process_transcription       *)
(* The coroutine runs in two stages: PT_Begin up to the await of the       *)
(* generator (client.chat.completions.create), PT_Finish from the          *)
(* generator's outcome on.  A result is what the caller of the coroutine   *)
(* gets: the patch returned, or raised.                                    *)
(***************************************************************************)
Return(patch) == [raised |-> FALSE, patch |-> patch]
Raise == [raised |-> TRUE, patch |-> <<>>]

\* The guard's branch raising instead of returning the empty patch.
PT_OnBlank_Raise == Raise

\* if not transcription_tail or not transcription_tail.strip(): return []
PT_OnBlank == Return(<<>>)

\* The handler re-raising to the caller.
PT_OnException_Reraise == Raise

\* The handler handing back a patch that was never validated.
PT_OnException_Unvalidated ==
    Return(<<[op |-> "replace", path |-> <<"actors", "0">>, value |-> Str(<<"v">>)]>>)

\* except Exception as e: ... return []
PT_OnException == Return(<<>>)

\* Up to the generator call: awaiting says that the coroutine is suspended
\* at the await with the generator invoked, otherwise ret is its result.
PT_Begin(transcription_tail, current_document, patch_history) ==
    IF IsBlank(transcription_tail)
    THEN [awaiting |-> FALSE, ret |-> PT_OnBlank]
    ELSE LET messages == build_update_prompt(
                             <<transcription_tail, current_document, patch_history>>) IN
         IF messages.err # ""
         THEN [awaiting |-> FALSE, ret |-> PT_OnException]
         ELSE [awaiting |-> TRUE, ret |-> Return(<<>>)]

\* is_valid, error = validate_patch(...): return [] if not is_valid, else
\* return patch_ops.
PT_Validated(v) == IF ~v.ok THEN Return(<<>>) ELSE Return(v.patch)

\* From the generator's outcome gen (it raised, or it returned content) on.
\* The patch returned is the list object parse_llm_response built, as the
\* dry run of validate_patch left it.
PT_Finish(gen, current_document) ==
    IF gen.kind = "raise" THEN PT_OnException
    ELSE IF gen.content.form = "empty" THEN Return(<<>>)
    ELSE LET p == parse_llm_response(ResponseText(gen.content)) IN
         IF p.err # "" THEN PT_OnException
         ELSE PT_Validated(validate_patch(p.patch, current_document))

(***************************************************************************)
(* backend/models/session.py                                               *)
(***************************************************************************)
\* Session(session_id=...): status, transcription_buffer.full_text, document
\* and patch_history of a new session.
NewSession ==
    [status |-> "active", full_text |-> <<>>, document |-> get_empty_document,
     patch_history |-> <<>>]

\* Session.add_patch_to_history(patch_ops, max_count) on patch_history.
add_patch_to_history(patch_history, patch_ops, max_count) ==
    IF patch_ops = <<>> THEN patch_history
    ELSE LET h == Append(patch_history, patch_ops) IN
         IF Len(h) > max_count THEN LastN(h, max_count) ELSE h

(***************************************************************************)
(* State.                                                                  *)
(* The codec driver: cPatch and cDoc are the caller's patch and document   *)
(* objects, cPatch0 and cDoc0 their values before any call, cCalls the log *)
(* of the calls made.                                                      *)
(* The service: sessions is SessionManager.sessions (session_id -> the     *)
(* Session's fields); pc, tsession and loc are, per handler task, where    *)
(* the handler is suspended, the session it holds and its local variables  *)
(* (loc[t].crossed: another task has run a cycle on the session since the  *)
(* handler was suspended); last records the last update cycle that ran to  *)
(* its end.                                                                *)
(* The buffer driver: bText is a TranscriptionBuffer's full_text, bWindow   *)
(* its window_size, bLast the last call made on it.                        *)
(* The history driver: hHist is a Session's patch_history, hMax the        *)
(* max_count the caller passes, hAdded the non-empty patches added so far. *)
(* last.docBefore/docAfter and last.histBefore/histAfter are the session's *)
(* document and patch_history before and after the cycle's handler acted,  *)
(* last.applyRaised whether its apply raised, last.userError whether the   *)
(* handler reported an error to its caller.                                *)
(***************************************************************************)
VARIABLES cPatch, cDoc, cPatch0, cDoc0, cCalls, sessions, pc, tsession, loc, last,
          clientDoc,
          bText, bWindow, bLast, hHist, hMax, hAdded, pResponse, pResult, pPrev,
          nPatch, nResult, mgrSessions, utcnow, max_sessions, mgrLast
codecVars == <<cPatch, cDoc, cPatch0, cDoc0, cCalls>>
serviceVars == <<sessions, pc, tsession, loc, last, clientDoc>>
bufferVars == <<bText, bWindow, bLast>>
historyVars == <<hHist, hMax, hAdded>>
parseVars == <<pResponse, pResult, pPrev>>
normalizeVars == <<nPatch, nResult>>
managerVars == <<mgrSessions, utcnow, max_sessions, mgrLast>>
vars == <<cPatch, cDoc, cPatch0, cDoc0, cCalls, sessions, pc, tsession, loc, last,
          clientDoc,
          bText, bWindow, bLast, hHist, hMax, hAdded, pResponse, pResult, pPrev,
          nPatch, nResult, mgrSessions, utcnow, max_sessions, mgrLast>>

HttpTasks == {"h1"}
WsConns == {"w1"}
Tasks == HttpTasks \cup WsConns
SessionIds == {"s1", "s2"}

NoGen == [kind |-> "none", content |-> Response("empty", <<>>)]
NoLoc ==
    [via |-> "none", text |-> <<>>, tail |-> <<>>, snapshot |-> NoValue, gen |-> NoGen,
     crossed |-> FALSE, textBefore |-> <<>>, full |-> <<>>]
NoLast ==
    [via |-> "none", session |-> "", tail |-> <<>>, snapshot |-> NoValue,
     gen |-> NoGen, genCalls |-> 0, ret |-> Return(<<>>), applied |-> FALSE,
     applyBase |-> NoValue, others |-> {}, inflight |-> {}, crossed |-> FALSE,
     docBefore |-> NoValue, docAfter |-> NoValue, histBefore |-> <<>>,
     histAfter |-> <<>>, applyRaised |-> FALSE, userError |-> FALSE,
     textBefore |-> <<>>, full |-> <<>>]

\* The client of a WebSocket connection: doc is the empty document with the
\* patches of the document_patch messages it has received applied in order,
\* whole says that the session's document was still the empty document
\* when the client connected, so that the client has missed no patch.
NoView == [doc |-> NoValue, whole |-> FALSE]

\* A call record of the session manager's driver: the method, whether it
\* raised, self.sessions before and after the call and the time of the call.
MgrCall(fn, raised, before, after, at) ==
    [fn |-> fn, raised |-> raised, before |-> before, after |-> after, at |-> at]

\* The session manager's driver when it is not used: SessionManager().
ManagerIdle ==
    /\ mgrSessions = <<>>
    /\ utcnow = 0
    /\ max_sessions = 1
    /\ mgrLast = MgrCall("init", FALSE, <<>>, <<>>, 0)

\* The service's state before any request.
ServiceIdle ==
    /\ sessions = [s \in {} |-> NewSession]
    /\ pc = [t \in Tasks |-> IF t \in HttpTasks THEN "idle" ELSE "closed"]
    /\ tsession = [t \in Tasks |-> ""]
    /\ loc = [t \in Tasks |-> NoLoc]
    /\ last = NoLast
    /\ clientDoc = [w \in WsConns |-> NoView]

\* A call record of the buffer driver: the method, its argument, the value
\* returned (ok for append, text for get_tail and get_full_text, count for
\* word_count) and full_text before the call.
BufCall(fn, arg, ok, text, count, before) ==
    [fn |-> fn, arg |-> arg, ok |-> ok, text |-> text, count |-> count, before |-> before]

\* The buffer driver's state when it is not used: TranscriptionBuffer().
BufferIdle ==
    /\ bText = <<>>
    /\ bWindow = 0
    /\ bLast = BufCall("init", <<>>, FALSE, <<>>, 0, <<>>)

\* The history driver's state when it is not used.
HistoryIdle ==
    /\ hHist = <<>>
    /\ hMax = 0
    /\ hAdded = <<>>

\* The result of the parse driver before parse_llm_response was called.
NotParsed ==
    [called |-> FALSE, err |-> "", patch |-> <<>>, rule |-> "", json_str |-> <<>>]

\* The patch whose serialization is the response at hand, if it is one.
NoPrev == [set |-> FALSE, patch |-> <<>>]

\* The parse driver's state when it is not used.
ParseIdle ==
    /\ pResponse = <<>>
    /\ pResult = NotParsed
    /\ pPrev = NoPrev

\* The result of the normalize driver before normalize_patch was called.
NotNormalized == [called |-> FALSE, patch |-> <<>>]

\* The normalize driver's state when it is not used.
NormalizeIdle ==
    /\ nPatch = <<>>
    /\ nResult = NotNormalized

\* The codec driver's state when it is not used.
CodecIdle ==
    /\ cPatch = <<>>
    /\ cDoc = get_empty_document
    /\ cPatch0 = <<>>
    /\ cDoc0 = get_empty_document
    /\ cCalls = <<>>

(***************************************************************************)
(* The codec driven as pure functions: a caller holds one patch object and *)
(* one document object and calls validate_patch and apply_patch on them.   *)
(***************************************************************************)

MaxPatchLen == 2

SV == Str(<<"v">>)
OV == Obj("k" :> SV)
CodecPaths  == {<<"name">>, <<"x">>, <<"actors", "-">>, <<"actors", "0">>, <<"actors", "2">>,
                <<"actors", "k">>, <<"x", "k">>}
CodecOps ==
    [op : {"add", "replace"}, path : CodecPaths, value : {SV, OV}]
      \cup [op : {"add", "replace"}, path : {<<>>}, value : {OV}]
      \cup [op : {"remove"}, path : CodecPaths \cup {<<>>, <<"name", "0">>}, value : {NoValue}]
      \cup [op : {"test"}, path : {<<"name">>}, value : {SV, NoValue}]
      \cup [op : {"test"}, path : {<<"x", "k">>}, value : {SV}]
      \cup [op : {"add", "merge"}, path : {<<"name">>}, value : {NoValue}]
CodecPatches == UNION {[1..n -> CodecOps] : n \in 0..MaxPatchLen}
CodecDocs ==
    {Obj(("name" :> Str(<<"T">>)) @@ ("actors" :> Arr(<<Str(<<"A">>), Str(<<"B">>)>>))),
     Arr(<<SV>>)}

CodecInit ==
    /\ cPatch \in CodecPatches
    /\ cDoc \in CodecDocs
    /\ cPatch0 = cPatch
    /\ cDoc0 = cDoc
    /\ cCalls = <<>>
    /\ ServiceIdle
    /\ BufferIdle
    /\ HistoryIdle
    /\ ParseIdle /\ NormalizeIdle /\ ManagerIdle

\* The caller's objects and log after validate_patch returned r.
Validated(r) ==
    /\ cPatch' = r.patch
    /\ cDoc' = r.docAfter
    /\ cCalls' = Append(cCalls, [fn |-> "validate", ok |-> r.ok, msg |-> r.msg,
                                 applied |-> r.applied, docBefore |-> cDoc,
                                 docAfter |-> r.docAfter, result |-> cDoc])

\* The caller's objects and log after apply_patch ended with r.
Applied(r) ==
    /\ cPatch' = r.patch
    /\ cDoc' = r.docAfter
    /\ cCalls' = Append(cCalls, [fn |-> "apply", ok |-> r.raised = "", msg |-> r.raised,
                                 applied |-> r.applied, docBefore |-> cDoc,
                                 docAfter |-> r.docAfter,
                                 result |-> Resolve(r.patch, r.result)])

\* The caller validates first (as process_transcription does) ...
CallValidate ==
    /\ cCalls = <<>>
    /\ Validated(validate_patch(cPatch, cDoc))
    /\ UNCHANGED <<cPatch0, cDoc0>>
    /\ UNCHANGED <<serviceVars, bufferVars, historyVars, parseVars, normalizeVars, managerVars>>

\* ... and applies next (as the handlers do), or applies without validating.
CallApply ==
    /\ \/ cCalls = <<>>
       \/ Len(cCalls) = 1 /\ cCalls[1].fn = "validate"
    /\ Applied(apply_patch(cPatch, cDoc))
    /\ UNCHANGED <<cPatch0, cDoc0>>
    /\ UNCHANGED <<serviceVars, bufferVars, historyVars, parseVars, normalizeVars, managerVars>>

CodecNext == CallValidate \/ CallApply
SpecCodec == CodecInit /\ [][CodecNext]_vars

(***************************************************************************)
(* A TranscriptionBuffer driven call by call (append, get_tail,            *)
(* get_full_text, word_count; no clear).                                   *)
(***************************************************************************)
\* Largest window_size a driven buffer is built with.
MaxWindow == 3

\* Longest full_text the driver lets a buffer reach.
MaxBufLen == 7

\* Texts handed to append: None, empty, whitespace only, words with leading
\* or trailing whitespace, and " a \nb" with whitespace inside.
BufTexts ==
    {PyNone, <<>>, <<" ">>, <<"\n">>, <<"a">>, <<" ", "b">>, <<"b", "\n">>,
     <<" ", "a", " ", "\n", "b">>}

\* TranscriptionBuffer(window_size=w); window_size is a positive number of
\* words (Session builds its buffer with window_size=250).
BufferInit ==
    /\ bText = <<>>
    /\ bWindow \in 1..MaxWindow
    /\ bLast = BufCall("init", <<>>, FALSE, <<>>, 0, <<>>)
    /\ ServiceIdle /\ CodecIdle /\ HistoryIdle /\ ParseIdle /\ NormalizeIdle /\ ManagerIdle

\* The buffer and the call record after append(text) gave r.
Appended(text, r) ==
    /\ Len(r.full_text) <= MaxBufLen
    /\ bText' = r.full_text
    /\ bLast' = BufCall("append", text, r.ok, <<>>, 0, bText)

BufAppend(text) ==
    /\ Appended(text, append(bText, text))
    /\ UNCHANGED <<bWindow, serviceVars, codecVars, historyVars, parseVars, normalizeVars, managerVars>>

BufGetTail ==
    /\ bLast' = BufCall("get_tail", <<>>, FALSE, get_tail(bText, bWindow), 0, bText)
    /\ UNCHANGED <<bText, bWindow, serviceVars, codecVars, historyVars, parseVars, normalizeVars, managerVars>>

BufGetFullText ==
    /\ bLast' = BufCall("get_full_text", <<>>, FALSE, get_full_text(bText), 0, bText)
    /\ UNCHANGED <<bText, bWindow, serviceVars, codecVars, historyVars, parseVars, normalizeVars, managerVars>>

BufWordCount ==
    /\ bLast' = BufCall("word_count", <<>>, FALSE, <<>>, word_count(bText), bText)
    /\ UNCHANGED <<bText, bWindow, serviceVars, codecVars, historyVars, parseVars, normalizeVars, managerVars>>

BufferNext ==
    \/ \E text \in BufTexts : BufAppend(text)
    \/ BufGetTail
    \/ BufGetFullText
    \/ BufWordCount

SpecBuffer == BufferInit /\ [][BufferNext]_vars

\* TranscriptionBuffer(window_size=w) for the integers from 0 on: __init__
\* stores its argument as it is given.
BufferInitAny ==
    /\ bText = <<>>
    /\ bWindow \in 0..MaxWindow
    /\ bLast = BufCall("init", <<>>, FALSE, <<>>, 0, <<>>)
    /\ ServiceIdle /\ CodecIdle /\ HistoryIdle /\ ParseIdle /\ NormalizeIdle /\ ManagerIdle

SpecBufferAny == BufferInitAny /\ [][BufferNext]_vars

(***************************************************************************)
(* The service: backend/api/routes.py and backend/api/websocket.py run as  *)
(* asyncio tasks on one event loop, so a handler runs without interruption *)
(* from one await that really suspends to the next.                        *)
(* ConnectionManager.connect is never called, so active_connections is     *)
(* empty and broadcast_to_session returns without suspending.              *)
(***************************************************************************)
\* Longest transcription_buffer.full_text the model lets a session reach.
MaxTextLen == 3

\* window_size of a session's TranscriptionBuffer, scaled to the texts of
\* the model.
WindowSize == 1

\* Settings.patch_history_count
PatchHistoryCount == 5

\* Texts a client or the transcription service delivers.
Texts == {<<>>, <<" ">>, <<"a">>}

\* What transcribe_audio does: it raises, or it returns a text.
TranscribeResults == {[ok |-> FALSE, text |-> <<>>]} \cup [ok : {TRUE}, text : Texts]

\* Patches the generator's responses hold: the first applies to a new
\* session's document, the second does not; the third adds a key with the
\* prefix "_" and tests it, and applies to a new session's document.
GenPatches ==
    {<<[op |-> "replace", path |-> <<"process_name">>, value |-> SV]>>,
     <<[op |-> "replace", path |-> <<"actors", "0">>, value |-> SV]>>,
     <<[op |-> "add", path |-> <<"_note">>, value |-> SV],
       [op |-> "test", path |-> <<"_note">>, value |-> SV]>>}

\* What the generator does when it is called: it raises (error, timeout),
\* or it returns a response.
GenOutcomes ==
    {[kind |-> "raise", content |-> Response("empty", <<>>)]}
      \cup [kind : {"content"},
            content : {Response("empty", <<>>), Response("prose", <<>>)}
                        \cup {Response("array", p) : p \in GenPatches}]

\* Handlers of other tasks suspended inside the handling of a message on
\* session s.
MidHandler(t, s) ==
    {u \in Tasks \ {t} : tsession[u] = s /\ pc[u] \in {"audio_pre", "tr_pre", "gen_wait"}}

\* Other tasks suspended inside a cycle on session s: at the generator call,
\* after the tail extraction and before the apply.
InFlight(t, s) == {u \in Tasks \ {t} : tsession[u] = s /\ pc[u] = "gen_wait"}

\* How much append(text) lengthens a non-empty full_text.
Cost(text) == IF IsBlank(text) THEN 0 ELSE Len(strip(text)) + 1

\* How much the handlers of the tasks in S that hold a transcribed text for
\* session s and have not appended it yet will lengthen its full_text.
RECURSIVE PendingCost(_, _)
PendingCost(S, s) ==
    IF S = {} THEN 0
    ELSE LET u == CHOOSE u \in S : TRUE IN
         (IF pc[u] = "audio_pre" /\ tsession[u] = s THEN Cost(loc[u].text) ELSE 0)
             + PendingCost(S \ {u}, s)

\* A handler that goes on handling the message it has already handled.
AfterCycle_Stay(t) == pc[t]

\* Where task t's handler is once it has handled a request or message: the
\* HTTP handler has returned, the WebSocket loop is back at receive_json.
AfterCycle(t) == IF t \in HttpTasks THEN "idle" ELSE "recv"

\* The store with one document and one history object behind all of its
\* sessions.
UpdateSession_Shared(store, s, sess) ==
    [u \in DOMAIN store |->
        IF u = s THEN sess
        ELSE [store[u] EXCEPT !.document = sess.document,
                              !.patch_history = sess.patch_history]]

\* session.update_document(...), session.add_patch_to_history(...) on the
\* Session object stored under s: its document and patch_history are the
\* session's own objects (default_factory builds them per Session), so the
\* other entries of the store stay as they are.
UpdateSession(store, s, sess) == [store EXCEPT ![s] = sess]

\* ConnectionManager.active_connections[session_id]: the dict starts empty
\* and only ConnectionManager.connect adds to it, which nothing calls
\* (websocket_endpoint accepts the socket itself, websocket.py 39).
active_connections(s) == {}

\* The connections a handler's document_patch message goes to: the HTTP
\* handler broadcasts it (routes.py 230-233, broadcast_to_session), a
\* WebSocket handler sends it on its own socket (websocket.py 143-145, 197).
Recipients(t, s, via) == IF via = "http" THEN active_connections(s) ELSE {t}

\* The client's document once it has applied the operations of a
\* document_patch message.
Received(view, patch_ops) ==
    IF view.doc = NoValue THEN view
    ELSE LET a == JsonPatchApply(patch_ops, view.doc, FALSE) IN
         IF a.raised = "" THEN [view EXCEPT !.doc = Resolve(a.patch, a.result)] ELSE view

\* What the handler does with the outcome a of applying the patch (doApply
\* says whether it applied at all): update_document, and add_patch_to_history
\* in the HTTP handler.  An exception of the apply is logged and nothing else
\* in the HTTP handler (routes.py 238-239) and in the audio_chunk branch
\* (websocket.py 150-152); the transcription branch answers an exception of
\* process_transcription or of the apply with an error message to the client
\* (websocket.py 202-206).  The cycle is recorded in last, and the handlers
\* it overtook are marked crossed.  The value is what sessions, last and loc
\* become.
Commit(t, s, sess, c, genCalls, ret, doApply, a) ==
    LET ok == doApply /\ a.raised = ""
        sess1 == IF ok THEN [sess EXCEPT !.document = Resolve(a.patch, a.result)] ELSE sess
        sess2 == IF ok /\ c.via = "http"
                 THEN [sess1 EXCEPT !.patch_history =
                          add_patch_to_history(@, ResolvePatch(a.patch), PatchHistoryCount)]
                 ELSE sess1
    IN [sessions |-> UpdateSession(sessions, s, sess2),
        last |-> [via |-> c.via, session |-> s, tail |-> c.tail,
                  snapshot |-> c.snapshot, gen |-> c.gen, genCalls |-> genCalls,
                  ret |-> ret, applied |-> doApply,
                  applyBase |-> IF doApply THEN sess.document ELSE NoValue,
                  others |-> MidHandler(t, s), inflight |-> InFlight(t, s),
                  crossed |-> loc[t].crossed,
                  docBefore |-> sess.document, docAfter |-> sess2.document,
                  histBefore |-> sess.patch_history,
                  histAfter |-> sess2.patch_history,
                  applyRaised |-> doApply /\ a.raised # "",
                  userError |-> c.via = "tr" /\ (ret.raised \/ (doApply /\ a.raised # "")),
                  textBefore |-> c.textBefore, full |-> c.full],
        loc |-> [u \in Tasks |->
                    IF u = t THEN NoLoc
                    ELSE IF u \in MidHandler(t, s) THEN [loc[u] EXCEPT !.crossed = TRUE]
                    ELSE loc[u]],
        clientDoc |-> [w \in WsConns |->
                          IF ok /\ w \in Recipients(t, s, c.via)
                          THEN Received(clientDoc[w], ResolvePatch(a.patch))
                          ELSE clientDoc[w]]]

\* The rest of a handler's cycle once process_transcription has given ret:
\*   routes.py 222-239   if patch_ops: apply_patch, update_document,
\*                       add_patch_to_history (exceptions logged);
\*   websocket.py 138-152  if patch_ops: apply_patch, update_document;
\*   websocket.py 194    session.document = jsonpatch.apply_patch(...).
\* c is the cycle (via, tail, snapshot, gen), sess the session as it is now.
FinishCycle(t, s, sess, c, genCalls, ret) ==
    Commit(t, s, sess, c, genCalls, ret,
           IF c.via = "tr" THEN ~ret.raised ELSE ~ret.raised /\ ret.patch # <<>>,
           IF c.via = "tr" THEN JsonPatchApply(ret.patch, sess.document, FALSE)
           ELSE apply_patch(ret.patch, sess.document))

\* The service's variables once task t's cycle has ended with r (what
\* FinishCycle gave) and its handler is at idle.
Ended(r, t, idle) ==
    [sessions |-> r.sessions, pc |-> [pc EXCEPT ![t] = idle], tsession |-> tsession,
     loc |-> r.loc, last |-> r.last, clientDoc |-> r.clientDoc]

\* process_transcription called by task t for session s (sess is the session
\* with the handler's own changes so far, so that textBefore is the
\* transcription buffer's text when the handler took the message up and full
\* its text at the call); idle is where the handler waits
\* once the cycle is over.  The value is what the service's variables
\* become.
StartCycle(t, s, sess, via, tail, hist, g, idle) ==
    LET c == [via |-> via, text |-> <<>>, tail |-> tail, snapshot |-> sess.document, gen |-> g,
              crossed |-> loc[t].crossed, textBefore |-> sessions[s].full_text,
              full |-> sess.full_text]
        b == PT_Begin(tail, sess.document, hist)
    IN IF b.awaiting
       THEN [sessions |-> [sessions EXCEPT ![s] = sess],
             pc |-> [pc EXCEPT ![t] = "gen_wait"],
             tsession |-> [tsession EXCEPT ![t] = s],
             loc |-> [loc EXCEPT ![t] = c],
             last |-> last,
             clientDoc |-> clientDoc]
       ELSE Ended(FinishCycle(t, s, sess, c, 0, b.ret), t, idle)

\* The service's variables take the values r.
Becomes(r) ==
    \E v \in {r} :
        /\ sessions' = v.sessions
        /\ pc' = v.pc
        /\ tsession' = v.tsession
        /\ loc' = v.loc
        /\ last' = v.last
        /\ clientDoc' = v.clientDoc

\* POST /sessions (routes.py create_session).
CreateSession(s) ==
    /\ s \notin DOMAIN sessions
    /\ sessions' = sessions @@ (s :> NewSession)
    /\ UNCHANGED <<pc, tsession, loc, last, clientDoc>>
    /\ UNCHANGED <<codecVars, bufferVars, historyVars, parseVars, normalizeVars, managerVars>>

\* POST /sessions/{session_id}/transcription (routes.py add_transcription),
\* up to its return or to the generator call.
HttpAddTranscription(h, s, text, g) ==
    /\ pc[h] = "idle"
    /\ s \in DOMAIN sessions
    /\ \E ap \in {append(sessions[s].full_text, text)} :
         \E sess \in {[sessions[s] EXCEPT !.full_text = ap.full_text]} :
          /\ Len(ap.full_text) + PendingCost(Tasks, s) <= MaxTextLen
          /\ IF ap.ok
             THEN Becomes(StartCycle(h, s, sess, "http",
                                     get_tail(sess.full_text, WindowSize),
                                     sess.patch_history, g, AfterCycle(h)))
             ELSE UNCHANGED serviceVars
    /\ UNCHANGED <<codecVars, bufferVars, historyVars, parseVars, normalizeVars, managerVars>>

\* WebSocket /ws?session_id=s for a session in the store.
WsConnect(w, s) ==
    /\ pc[w] = "closed"
    /\ s \in DOMAIN sessions
    /\ pc' = [pc EXCEPT ![w] = "recv"]
    /\ tsession' = [tsession EXCEPT ![w] = s]
    /\ clientDoc' = [clientDoc EXCEPT ![w] =
                         [doc |-> get_empty_document,
                          whole |-> sessions[s].document = get_empty_document]]
    /\ UNCHANGED <<sessions, loc, last>>
    /\ UNCHANGED <<codecVars, bufferVars, historyVars, parseVars, normalizeVars, managerVars>>

\* WebSocket /ws without session_id: session_manager.create_session().
WsConnectNew(w, s) ==
    /\ pc[w] = "closed"
    /\ s \notin DOMAIN sessions
    /\ sessions' = sessions @@ (s :> NewSession)
    /\ pc' = [pc EXCEPT ![w] = "recv"]
    /\ tsession' = [tsession EXCEPT ![w] = s]
    /\ clientDoc' = [clientDoc EXCEPT ![w] = [doc |-> get_empty_document, whole |-> TRUE]]
    /\ UNCHANGED <<loc, last>>
    /\ UNCHANGED <<codecVars, bufferVars, historyVars, parseVars, normalizeVars, managerVars>>

\* An audio_chunk message (websocket.py 88-121): the handler sends the
\* processing status and awaits transcribe_audio, which raises (res.ok is
\* FALSE) or returns res.text; with a non-empty text it goes on to send the transcription
\* and is suspended there, otherwise it is back at receive_json.
WsAudioChunk(w, res) ==
    /\ pc[w] = "recv"
    /\ IF ~res.ok \/ res.text = <<>>
       THEN UNCHANGED <<pc, loc>>
       ELSE /\ Len(sessions[tsession[w]].full_text) + PendingCost(Tasks \ {w}, tsession[w])
                  + Cost(res.text) <= MaxTextLen
            /\ pc' = [pc EXCEPT ![w] = "audio_pre"]
            /\ loc' = [loc EXCEPT ![w] = [NoLoc EXCEPT !.text = res.text]]
    /\ UNCHANGED <<sessions, tsession, last, clientDoc>>
    /\ UNCHANGED <<codecVars, bufferVars, historyVars, parseVars, normalizeVars, managerVars>>

\* A transcription message (websocket.py 171-181): the handler forwards the
\* text and the processing status to the client and is suspended there.
WsTranscription(w, text) ==
    /\ pc[w] = "recv"
    /\ pc' = [pc EXCEPT ![w] = "tr_pre"]
    /\ loc' = [loc EXCEPT ![w] = [NoLoc EXCEPT !.text = text]]
    /\ UNCHANGED <<sessions, tsession, last, clientDoc>>
    /\ UNCHANGED <<codecVars, bufferVars, historyVars, parseVars, normalizeVars, managerVars>>

\* A stop_recording message (websocket.py 208-213): session.mark_stopped().
WsStopRecording(w) ==
    /\ pc[w] = "recv"
    /\ sessions' = [sessions EXCEPT ![tsession[w]].status = "stopped"]
    /\ UNCHANGED <<pc, tsession, loc, last, clientDoc>>
    /\ UNCHANGED <<codecVars, bufferVars, historyVars, parseVars, normalizeVars, managerVars>>

\* The event loop resumes task t where it is suspended:
\*   audio_pre  websocket.py 124-152: add_transcription, get_transcription_tail,
\*              process_transcription(tail, session.document), apply;
\*   tr_pre     websocket.py 183-194: process_transcription(message.text,
\*              session.document), jsonpatch.apply_patch;
\*   gen_wait   the generator's outcome arrives inside process_transcription
\*              (llm_service.py 70-125), then the handler's apply.
\* g is what the generator does if this cycle calls it.
Resume(t, g) ==
    /\ pc[t] \in {"audio_pre", "tr_pre", "gen_wait"}
    /\ \E s \in {tsession[t]}, idle \in {AfterCycle(t)} :
          CASE pc[t] = "audio_pre" ->
                 \E ap \in {append(sessions[s].full_text, loc[t].text)} :
                  \E sess \in {[sessions[s] EXCEPT !.full_text = ap.full_text]} :
                    IF ap.ok
                    THEN Becomes(StartCycle(t, s, sess, "audio",
                                            get_tail(sess.full_text, WindowSize),
                                            NoValue, g, idle))
                    ELSE /\ pc' = [pc EXCEPT ![t] = idle]
                         /\ loc' = [loc EXCEPT ![t] = NoLoc]
                         /\ UNCHANGED <<sessions, tsession, last, clientDoc>>
            [] pc[t] = "tr_pre" ->
                 Becomes(StartCycle(t, s, sessions[s], "tr", loc[t].text, NoValue, g, idle))
            [] pc[t] = "gen_wait" ->
                 /\ g = loc[t].gen
                 /\ Becomes(Ended(FinishCycle(t, s, sessions[s], loc[t], 1,
                                              PT_Finish(loc[t].gen, loc[t].snapshot)),
                                  t, idle))
    /\ UNCHANGED <<codecVars, bufferVars, historyVars, parseVars, normalizeVars, managerVars>>

\* The client goes away: the handler's pending send or receive raises
\* WebSocketDisconnect and the handler ends (websocket.py 215-224).
WsDisconnect(w) ==
    /\ pc[w] \in {"recv", "audio_pre", "tr_pre"}
    /\ pc' = [pc EXCEPT ![w] = "closed"]
    /\ tsession' = [tsession EXCEPT ![w] = ""]
    /\ loc' = [loc EXCEPT ![w] = NoLoc]
    /\ clientDoc' = [clientDoc EXCEPT ![w] = NoView]
    /\ UNCHANGED <<sessions, last>>
    /\ UNCHANGED <<codecVars, bufferVars, historyVars, parseVars, normalizeVars, managerVars>>

Init ==
    /\ ServiceIdle /\ CodecIdle /\ BufferIdle /\ HistoryIdle /\ ParseIdle /\ NormalizeIdle
    /\ ManagerIdle

Next ==
    \/ \E s \in SessionIds : CreateSession(s)
    \/ \E h \in HttpTasks, s \in SessionIds, text \in Texts, g \in GenOutcomes :
           HttpAddTranscription(h, s, text, g)
    \/ \E w \in WsConns, s \in SessionIds : WsConnect(w, s)
    \/ \E w \in WsConns, s \in SessionIds : WsConnectNew(w, s)
    \/ \E w \in WsConns, res \in TranscribeResults : WsAudioChunk(w, res)
    \/ \E w \in WsConns, text \in Texts : WsTranscription(w, text)
    \/ \E w \in WsConns : WsStopRecording(w)
    \/ \E t \in Tasks, g \in GenOutcomes : Resume(t, g)
    \/ \E w \in WsConns : WsDisconnect(w)

Spec == Init /\ [][Next]_vars

(***************************************************************************)
(* The service under the event loop's scheduling: a handler suspended at   *)
(* an await is resumed once what it awaits (a send to the client,          *)
(* transcribe_audio, the generator call) has returned or raised.           *)
(***************************************************************************)
\* Sessions the handlers work on here.
LiveSessions == {"s1"}

\* Task t's handler is suspended inside the handling of a message.
Suspended(t) == pc[t] \in {"audio_pre", "tr_pre", "gen_wait"}

LiveNext ==
    \/ \E s \in LiveSessions : CreateSession(s)
    \/ \E h \in HttpTasks, s \in LiveSessions, text \in Texts, g \in GenOutcomes :
           HttpAddTranscription(h, s, text, g)
    \/ \E w \in WsConns, s \in LiveSessions : WsConnect(w, s)
    \/ \E w \in WsConns, s \in LiveSessions : WsConnectNew(w, s)
    \/ \E w \in WsConns, res \in TranscribeResults : WsAudioChunk(w, res)
    \/ \E w \in WsConns, text \in Texts : WsTranscription(w, text)
    \/ \E w \in WsConns : WsStopRecording(w)
    \/ \E t \in Tasks, g \in GenOutcomes : Resume(t, g)
    \/ \E w \in WsConns : WsDisconnect(w)

\* Weak fairness of each task's Resume, WF_vars(\E g : Resume(t, g)), with
\* ENABLED written as the state predicate it equals: a Resume step always
\* moves pc[t], so it is enabled exactly when the task is suspended.
Fairness ==
    \A t \in Tasks :
        \/ []<>(~Suspended(t))
        \/ []<><<\E g \in GenOutcomes : Resume(t, g)>>_vars

SpecLive == Init /\ [][LiveNext]_vars /\ Fairness


(***************************************************************************)
(* Claims about the codec (checked under SpecCodec)                        *)
(***************************************************************************)
IsCall(i, fn) == i \in 1..Len(cCalls) /\ cCalls[i].fn = fn

\* C1: validate_patch and apply_patch agree on a list patch and a dict
\* document: a caller that validates a patch and then applies it to the same
\* document sees apply succeed exactly when validate returned (True, "").
C1_ValidateThenApplyAgree ==
    (IsCall(1, "validate") /\ IsCall(2, "apply") /\ cDoc0.t = "obj")
        => ((cCalls[1].ok /\ cCalls[1].msg = "") <=> cCalls[2].ok)

\* C2: apply_patch leaves its document argument as it was, whether the patch
\* applies or fails part-way.
C2_ApplyKeepsDocument ==
    \A i \in 1..Len(cCalls) :
        cCalls[i].fn = "apply" => cCalls[i].docAfter = cCalls[i].docBefore

\* C2 witness: an apply that failed after at least one operation had been
\* applied to the working document.
C2_Witness ==
    \E i \in 1..Len(cCalls) :
        cCalls[i].fn = "apply" /\ ~cCalls[i].ok /\ cCalls[i].applied >= 1

CycleDone == last.via # "none"

\* The patch the generator's response parses to, and its validation against
\* the snapshot.
LastParsed == parse_llm_response(ResponseText(last.gen.content))
LastValid == validate_patch(LastParsed.patch, last.snapshot)

\* C4: when the window is not blank, the generator returns content that
\* parses to a patch P and P validates against the document given,
\* process_transcription returns exactly P.
C4_ReturnsParsedPatch ==
    (CycleDone /\ ~IsBlank(last.tail) /\ last.gen.kind = "content"
        /\ LastParsed.err = "" /\ LastValid.ok)
        => last.ret = Return(LastValid.patch)

C6_BlankWindowNoCall ==
    (CycleDone /\ IsBlank(last.tail)) => (last.ret = Return(<<>>) /\ last.genCalls = 0)

\* C6 witness: a cycle run on a whitespace-only window.
C6_Witness == CycleDone /\ last.tail = <<" ">> /\ last.genCalls = 0

MaxActors == 1

\* Sessions the driver works on.
HandlerSessions == {"s1"}

\* Patches handed to a handler: the empty patch, two patches that apply to
\* a new session's document, and one that applies only once the document
\* has an actor.
HandlerPatches ==
    {<<>>,
     <<[op |-> "replace", path |-> <<"process_name">>, value |-> SV]>>,
     <<[op |-> "add", path |-> <<"actors", "-">>, value |-> SV]>>,
     <<[op |-> "replace", path |-> <<"actors", "0">>, value |-> SV]>>}

\* Task t's handler once process_transcription has returned patch_ops for
\* session s: routes.py 221-246 (via "http"), websocket.py 138-163 (via
\* "audio"), websocket.py 194-206 (via "tr").
HandlerReturn(t, s, via, patch_ops) ==
    /\ s \in DOMAIN sessions
    /\ IF t \in HttpTasks THEN via = "http" /\ pc[t] = "idle"
       ELSE via \in {"audio", "tr"} /\ pc[t] = "recv" /\ tsession[t] = s
    /\ Becomes(Ended(FinishCycle(t, s, sessions[s],
                                 [NoLoc EXCEPT !.via = via, !.tail = <<"a">>,
                                               !.snapshot = sessions[s].document],
                                 1, Return(patch_ops)),
                     t, pc[t]))
    /\ Len(sessions'[s].document.v["actors"].v) <= MaxActors
    /\ UNCHANGED <<codecVars, bufferVars, historyVars, parseVars, normalizeVars, managerVars>>

HandlerNext ==
    \/ \E s \in HandlerSessions : CreateSession(s)
    \/ \E w \in WsConns, s \in HandlerSessions : WsConnect(w, s)
    \/ \E w \in WsConns : WsDisconnect(w)
    \/ \E t \in Tasks, s \in HandlerSessions, via \in {"http", "audio", "tr"},
          patch_ops \in HandlerPatches : HandlerReturn(t, s, via, patch_ops)

SpecHandler == Init /\ [][HandlerNext]_vars

(***************************************************************************)
(* Two sessions side by side: the handlers' appends, stops and suspensions *)
(* as in the service, and the handlers' applies on the patches             *)
(* process_transcription may return.                                       *)
(***************************************************************************)
\* Longest patch history the driver lets a session reach.
MaxIsoHist == 1

\* The text of the driver's audio, what its generator would do and the
\* patches its handlers are handed.
IsoText == <<"a">>
IsoGen == [kind |-> "raise", content |-> Response("empty", <<>>)]
IsoPatches ==
    {<<[op |-> "replace", path |-> <<"process_name">>, value |-> SV]>>,
     <<[op |-> "add", path |-> <<"actors", "-">>, value |-> SV]>>}

\* An audio_chunk message on a session without text yet.
IsoAudioChunk(w) ==
    /\ WsAudioChunk(w, [ok |-> TRUE, text |-> IsoText])
    /\ sessions[tsession[w]].full_text = <<>>

IsoReturn(t, s, via, patch_ops) ==
    /\ HandlerReturn(t, s, via, patch_ops)
    /\ Len(sessions'[s].patch_history) <= MaxIsoHist

IsolationNext ==
    \/ \E s \in SessionIds : CreateSession(s)
    \/ \E w \in WsConns, s \in SessionIds : WsConnect(w, s)
    \/ \E w \in WsConns : IsoAudioChunk(w)
    \/ \E w \in WsConns : WsStopRecording(w)
    \/ \E t \in Tasks : Resume(t, IsoGen)
    \/ \E w \in WsConns : WsDisconnect(w)
    \/ \E t \in Tasks, s \in SessionIds, via \in {"http", "audio"}, patch_ops \in IsoPatches :
          IsoReturn(t, s, via, patch_ops)

SpecIsolation == Init /\ [][IsolationNext]_vars

(***************************************************************************)
(* A Session's patch history driven call by call: a caller holding the     *)
(* session calls add_patch_to_history with one max_count throughout        *)
(* (routes.py passes settings.patch_history_count, an int without bounds). *)
(***************************************************************************)
\* Largest max_count the driver passes.
MaxHistCount == 2

\* Most non-empty patches the driver adds.
MaxHistAdds == 5

\* Patches handed to add_patch_to_history: the empty patch and two others.
HistPatches == {<<>>} \cup GenPatches

HistoryInit ==
    /\ hHist = <<>>
    /\ hMax \in 0..MaxHistCount
    /\ hAdded = <<>>
    /\ ServiceIdle /\ CodecIdle /\ BufferIdle /\ ParseIdle /\ NormalizeIdle /\ ManagerIdle

\* session.add_patch_to_history(patch_ops, max_count)
HistAdd(patch_ops) ==
    /\ Len(hAdded) < MaxHistAdds
    /\ hHist' = add_patch_to_history(hHist, patch_ops, hMax)
    /\ hAdded' = IF patch_ops # <<>> THEN Append(hAdded, patch_ops) ELSE hAdded
    /\ UNCHANGED <<hMax, serviceVars, codecVars, bufferVars, parseVars, normalizeVars, managerVars>>

HistoryNext == \E patch_ops \in HistPatches : HistAdd(patch_ops)

SpecHistory == HistoryInit /\ [][HistoryNext]_vars

(***************************************************************************)
(* The parse driver: parse_llm_response on one response, then on the       *)
(* json.dumps of what it returned.                                         *)
(***************************************************************************)
\* The patches whose serializations are among the responses: none, one
\* replace, an add followed by a remove without value, a test without
\* value, an add of an array, a replace by a nested object.
ParsePatches ==
    {<<>>,
     <<[op |-> "replace", path |-> <<"process_name">>, value |-> SV]>>,
     <<[op |-> "add", path |-> <<"actors", "-">>, value |-> SV],
       [op |-> "remove", path |-> <<"actors", "0">>, value |-> NoValue]>>,
     <<[op |-> "test", path |-> <<"process_name">>, value |-> NoValue]>>,
     <<[op |-> "add", path |-> <<"actors">>, value |-> Arr(<<SV>>)]>>,
     <<[op |-> "replace", path |-> <<"process_name">>, value |-> OV]>>,
     <<[op |-> "add", path |-> <<"actors", "-">>, value |-> Obj("k" :> Arr(<<>>))]>>}

\* Texts that json.loads or the field checks reject: an array of a string,
\* an object, a string, operations lacking op, path or value, a move
\* without value, an empty object, a trailing comma, a missing colon, an
\* array left open, prose.
BadCores ==
    {<<"[", "v", "]">>,
     <<"{", "op", ":", " ", "remove", ",", " ", "path", ":", " ", "/actors/0", "}">>,
     <<"v">>,
     <<"[", "{", "path", ":", " ", "/actors/-", ",", " ", "value", ":", " ", "v", "}", "]">>,
     <<"[", "{", "op", ":", " ", "add", ",", " ", "value", ":", " ", "v", "}", "]">>,
     <<"[", "{", "op", ":", " ", "add", ",", " ", "path", ":", " ", "/actors/-", "}", "]">>,
     <<"[", "{", "op", ":", " ", "move", ",", " ", "path", ":", " ", "/actors/0", "}", "]">>,
     <<"[", "{", "}", "]">>,
     <<"[", "{", "op", ":", " ", "remove", ",", " ", "path", ":", " ", "/actors/0", "}", ",", "]">>,
     <<"[", "{", "op", " ", "remove", "}", "]">>,
     <<"[", "{", "op", ":", " ", "remove">>,
     <<"x", " ", "x">>}

ParseCores == {DumpPatch(patch) : patch \in ParsePatches} \cup BadCores

\* A core as a response: alone, within whitespace, within prose, in a
\* fenced block with or without the json tag, in a fenced block within
\* prose, in a block tagged otherwise, in a block left open, in a fenced
\* block after a bare array, in the first of two fenced blocks.
Wrapped(core) ==
    {core,
     <<" ">> \o core \o <<"\n">>,
     <<"x", " ">> \o core \o <<" ", "x">>,
     <<Fence, "json", "\n">> \o core \o <<"\n", Fence>>,
     <<Fence>> \o core \o <<Fence>>,
     <<"x", "\n", Fence, "json", "\n">> \o core \o <<"\n", Fence, "\n", "x">>,
     <<Fence, "x", "\n">> \o core \o <<"\n", Fence>>,
     <<Fence, "json", "\n">> \o core,
     <<"[", "]", "\n", Fence, "json", "\n">> \o core \o <<"\n", Fence>>,
     <<Fence, "\n">> \o core \o <<"\n", Fence, "\n", Fence, "[", "]", Fence>>}

\* The responses without content: None, "", whitespace.
BlankResponses == {PyNone, <<>>, <<" ">>, <<"\n", " ">>}

ParseResponses == UNION {Wrapped(core) : core \in ParseCores} \cup BlankResponses

ParseInit ==
    /\ pResponse \in ParseResponses
    /\ pResult = NotParsed
    /\ pPrev = NoPrev
    /\ ServiceIdle /\ CodecIdle /\ BufferIdle /\ HistoryIdle /\ NormalizeIdle /\ ManagerIdle

Parsed(r) ==
    [called |-> TRUE, err |-> r.err, patch |-> r.patch, rule |-> r.rule,
     json_str |-> r.json_str]

\* parse_llm_response(pResponse)
CallParse ==
    /\ ~pResult.called
    /\ pResult' = Parsed(parse_llm_response(pResponse))
    /\ UNCHANGED <<pResponse, pPrev, serviceVars, codecVars, bufferVars, historyVars,
                   normalizeVars, managerVars>>

\* json.dumps(patch) of the patch returned becomes the next response.
CallDumps ==
    /\ pResult.called /\ pResult.err = "" /\ ~pPrev.set
    /\ pResponse' = DumpPatch(pResult.patch)
    /\ pPrev' = [set |-> TRUE, patch |-> pResult.patch]
    /\ pResult' = NotParsed
    /\ UNCHANGED <<serviceVars, codecVars, bufferVars, historyVars, normalizeVars, managerVars>>

ParseNext == CallParse \/ CallDumps

SpecParse == ParseInit /\ [][ParseNext]_vars

(***************************************************************************)
(* The normalize driver: normalize_patch on one patch.                     *)
(***************************************************************************)
MaxNormLen == 3

\* Paths of the patches: a scalar field, the append position of a list, and
\* members of that list whose names end like the keys normalize_patch makes.
NormPaths == {"/process_name", "/actors/-", "/actors/-_add_0", "/actors/-_add_1"}

NormOps ==
    [op : {"replace"}, path : NormPaths, value : {Str(<<"v">>), Str(<<"w">>)}]
      \cup [op : {"add"}, path : NormPaths, value : {Str(<<"v">>)}]
      \cup [op : {"remove"}, path : NormPaths, value : {NoValue}]

NormPatches == UNION {[1..n -> NormOps] : n \in 0..MaxNormLen}

NormalizeInit ==
    /\ nPatch \in NormPatches
    /\ nResult = NotNormalized
    /\ ServiceIdle /\ CodecIdle /\ BufferIdle /\ HistoryIdle /\ ParseIdle /\ ManagerIdle

\* normalize_patch(nPatch)
CallNormalize ==
    /\ ~nResult.called
    /\ nResult' = [called |-> TRUE, patch |-> normalize_patch(nPatch)]
    /\ UNCHANGED <<nPatch, serviceVars, codecVars, bufferVars, historyVars, parseVars,
                   managerVars>>

NormalizeNext == CallNormalize

SpecNormalize == NormalizeInit /\ [][NormalizeNext]_vars

(***************************************************************************)
(* backend/services/session_manager.py: SessionManager driven call by      *)
(* call.  self.sessions maps a session id to its Session, of which         *)
(* updated_at and status matter here; time is counted in ticks of          *)
(* datetime.utcnow().                                                      *)
(***************************************************************************)
\* Largest settings.max_sessions of the driver.
MaxMaxSessions == 2

\* settings.session_timeout_minutes, in ticks.
SessionTimeout == 1

\* Last tick of the clock.
MaxNow == 3

\* The ids of the driver's sessions (uuid4 values, or ids a caller passes).
MgrIds == {"a", "b", "c"}

\* now - session.updated_at > timeout
TimedOut(session, now) == now - session.updated_at > SessionTimeout

\* _cleanup_expired_sessions(): delete_session for every timed-out id.
CleanupExpired(store, now) ==
    [id \in {i \in DOMAIN store : ~TimedOut(store[i], now)} |-> store[id]]

\* The limit check that never finds the store full.
LimitReached_Never(store, limit) == FALSE

\* len(self.sessions) >= self.max_sessions
LimitReached(store, limit) == Cardinality(DOMAIN store) >= limit

\* What create_session leaves once the store after its cleanup is cleaned:
\* ValueError if the limit is still reached, otherwise
\* self.sessions[session_id] = Session(session_id=session_id).
CreateIn(cleaned, full, now, limit, session_id) ==
    IF full /\ LimitReached(cleaned, limit)
    THEN [raised |-> TRUE, sessions |-> cleaned]
    ELSE [raised |-> FALSE,
          sessions |-> [id \in DOMAIN cleaned \cup {session_id} |->
                           IF id = session_id
                           THEN [updated_at |-> now, status |-> "active"]
                           ELSE cleaned[id]]]

\* SessionManager.create_session(session_id)
create_session(store, now, limit, session_id) ==
    CreateIn(IF LimitReached(store, limit) THEN CleanupExpired(store, now) ELSE store,
             LimitReached(store, limit), now, limit, session_id)

\* SessionManager.get_session(session_id): a timed-out session is marked
\* expired (mark_expired sets status and updated_at) and returned.
get_session(store, now, session_id) ==
    IF session_id \in DOMAIN store /\ TimedOut(store[session_id], now)
    THEN [store EXCEPT ![session_id] = [updated_at |-> now, status |-> "expired"]]
    ELSE store

\* SessionManager.delete_session(session_id)
delete_session(store, session_id) ==
    [id \in DOMAIN store \ {session_id} |-> store[id]]

ManagerInit ==
    /\ mgrSessions = <<>>
    /\ utcnow = 0
    /\ max_sessions \in 1..MaxMaxSessions
    /\ mgrLast = MgrCall("init", FALSE, <<>>, <<>>, 0)
    /\ ServiceIdle /\ CodecIdle /\ BufferIdle /\ HistoryIdle /\ ParseIdle /\ NormalizeIdle

\* The manager's store and call record after a call of fn.
MgrCalled(fn, raised, after) ==
    /\ mgrSessions' = after
    /\ mgrLast' = MgrCall(fn, raised, mgrSessions, after, utcnow)
    /\ UNCHANGED <<utcnow, max_sessions>>
    /\ UNCHANGED <<serviceVars, codecVars, bufferVars, historyVars, parseVars, normalizeVars>>

\* create_session() with a new uuid4, or create_session(session_id).
MgrCreate(session_id) ==
    \E r \in {create_session(mgrSessions, utcnow, max_sessions, session_id)} :
        MgrCalled("create", r.raised, r.sessions)

MgrGet(session_id) ==
    \E after \in {get_session(mgrSessions, utcnow, session_id)} :
        MgrCalled("get", FALSE, after)

MgrDelete(session_id) ==
    \E after \in {delete_session(mgrSessions, session_id)} :
        MgrCalled("delete", FALSE, after)

\* A handler uses a session it holds: add_transcription and mark_stopped
\* set updated_at.
MgrTouch(session_id) ==
    /\ session_id \in DOMAIN mgrSessions
    /\ MgrCalled("touch", FALSE,
                 [mgrSessions EXCEPT ![session_id].updated_at = utcnow])

\* Time passes.
MgrTick ==
    /\ utcnow < MaxNow
    /\ utcnow' = utcnow + 1
    /\ UNCHANGED <<mgrSessions, max_sessions, mgrLast>>
    /\ UNCHANGED <<serviceVars, codecVars, bufferVars, historyVars, parseVars, normalizeVars>>

ManagerNext ==
    \/ \E session_id \in MgrIds : MgrCreate(session_id)
    \/ \E session_id \in MgrIds : MgrGet(session_id)
    \/ \E session_id \in MgrIds : MgrDelete(session_id)
    \/ \E session_id \in MgrIds : MgrTouch(session_id)
    \/ MgrTick

SpecManager == ManagerInit /\ [][ManagerNext]_vars

(***************************************************************************)
(* Claims about the handlers' treatment of a cycle's outcome.              *)
(***************************************************************************)
\* C12: a cycle in which no patch is produced leaves the session's document
\* and patch history as they were before the cycle, and no exception
\* reaches the end user.
C12_NoPatchNoChange ==
    (CycleDone /\ (last.ret.raised \/ last.ret.patch = <<>>)) =>
        /\ last.docAfter = last.docBefore
        /\ last.histAfter = last.histBefore
        /\ sessions[last.session].document = last.docAfter
        /\ ~last.userError

\* C12 witness: a transcription message with a non-blank text ended without
\* a patch, and the handler ran its unconditional apply of the empty patch.
C12_Witness ==
    /\ CycleDone /\ last.via = "tr" /\ ~IsBlank(last.tail)
    /\ last.ret = Return(<<>>) /\ last.applied

\* C13: an apply failure on a patch that process_transcription returned is
\* surfaced to the cycle's caller: the cycle does not report success when
\* apply_patch raised.
C13_ApplyFailureSurfaced ==
    (CycleDone /\ last.applyRaised) => last.userError

Min(a, b) == IF a <= b THEN a ELSE b

\* The last k elements of xs, for k <= Len(xs).
LastTokens(xs, k) == SubSeq(xs, Len(xs) - k + 1, Len(xs))

\* s without its leading and trailing whitespace, for s not all whitespace.
Trimmed(s) ==
    LET ink == {i \in 1..Len(s) : ~IsSpace(s[i])}
        lo  == CHOOSE i \in ink : \A j \in ink : i <= j
        hi  == CHOOSE i \in ink : \A j \in ink : j <= i
    IN SubSeq(s, lo, hi)

IsPrefix(s, t) == Len(s) <= Len(t) /\ SubSeq(t, 1, Len(s)) = s

\* C15: for every window size w and every buffer whose full_text has more
\* than w tokens, get_tail() returns the last w tokens joined by single
\* spaces.
C15_TailIsLastWords ==
    (bLast.fn = "get_tail" /\ Len(split(bText)) > bWindow)
        => bLast.text = join(LastTokens(split(bText), bWindow))

\* C15 witness: get_tail on a buffer holding more than window_size tokens,
\* some of them separated by a newline, for a window of more than one word.
C15_Witness ==
    /\ bLast.fn = "get_tail" /\ bWindow >= 2 /\ Len(split(bText)) > bWindow
    /\ bLast.text # bText /\ bText # join(split(bText))

\* C16: for a buffer whose full_text has at most window_size tokens
\* get_tail() returns full_text unchanged, and the empty string for an empty
\* buffer.
C16_TailIdentity ==
    bLast.fn = "get_tail" =>
        /\ Len(split(bText)) <= bWindow => bLast.text = bText
        /\ bText = <<>> => bLast.text = <<>>

\* C16 witness: get_tail on a buffer holding exactly window_size tokens
\* that are not separated by single spaces.
C16_Witness ==
    /\ bLast.fn = "get_tail" /\ bWindow >= 2 /\ Len(split(bText)) = bWindow
    /\ bText # join(split(bText))

\* C17: after a non-blank text with tokens T is appended to a buffer whose
\* previous tail had tokens P, the tail's tokens are the last
\* min(window_size, |P|+|T|) tokens of P followed by T.
C17_TailsOverlap ==
    (bLast.fn = "append" /\ ~IsBlank(bLast.arg)) =>
        LET P == split(get_tail(bLast.before, bWindow))
            T == split(bLast.arg)
        IN split(get_tail(bText, bWindow))
               = LastTokens(P \o T, Min(bWindow, Len(P) + Len(T)))

\* C17 witness: a text is appended to a buffer whose tail was already full,
\* and the new tail keeps a word of the previous one.
C17_Witness ==
    /\ bLast.fn = "append" /\ bLast.ok = TRUE /\ bWindow >= 2
    /\ Len(split(bLast.before)) >= bWindow
    /\ Len(split(bLast.arg)) < bWindow

\* C18: append of None, of an empty or of a whitespace-only text returns
\* False and leaves full_text (hence get_tail and word_count) unchanged.
C18_BlankAppendNoChange ==
    (bLast.fn = "append" /\ (bLast.arg = PyNone \/ \A i \in 1..Len(bLast.arg) : IsSpace(bLast.arg[i])))
        => /\ bLast.ok = FALSE
           /\ bText = bLast.before
           /\ get_tail(bText, bWindow) = get_tail(bLast.before, bWindow)
           /\ word_count(bText) = word_count(bLast.before)

\* C18 witness: whitespace-only text appended to a buffer that holds text.
C18_Witness == bLast.fn = "append" /\ bLast.arg = <<"\n">> /\ bLast.before # <<>>

\* C19: append of a text that is non-empty after trimming returns True and
\* sets full_text to the old full_text, a space and the trimmed text (to the
\* trimmed text alone for an empty buffer); whitespace inside the text is
\* kept.
C19_AppendJoins ==
    (bLast.fn = "append" /\ bLast.arg # PyNone /\ \E i \in 1..Len(bLast.arg) : ~IsSpace(bLast.arg[i]))
        => /\ bLast.ok = TRUE
           /\ bText = IF bLast.before # <<>>
                      THEN bLast.before \o <<" ">> \o Trimmed(bLast.arg)
                      ELSE Trimmed(bLast.arg)

\* C19 witness: a text with leading whitespace and whitespace inside it is
\* appended to a buffer that holds text.
C19_Witness ==
    /\ bLast.fn = "append" /\ bLast.arg = <<" ", "a", " ", "\n", "b">>
    /\ bLast.before # <<>> /\ bLast.ok = TRUE

\* C20: the transcript is append-only: get_tail, get_full_text and
\* word_count leave full_text unchanged, and in every step the old full_text
\* is a prefix of the new one.
C20_AppendOnly ==
    [][/\ IsPrefix(bText, bText')
       /\ bLast'.fn \in {"get_tail", "get_full_text", "word_count"} => bText' = bText]_vars

\* C20 witness: text appended to a buffer that already holds text.
C20_Witness ==
    bLast.fn = "append" /\ bLast.ok = TRUE /\ bLast.before # <<>> /\ bText # bLast.before

(***************************************************************************)
(* Claims about the patch history (checked under SpecHistory).             *)
(***************************************************************************)
\* C11: with a fixed non-negative max_count m the history has length at most
\* m and equals the last min(n, m) of the n non-empty patches added, in the
\* order they were added.
C11_HistoryBoundedFifo ==
    /\ Len(hHist) <= hMax
    /\ hHist = LastTokens(hAdded, Min(Len(hAdded), hMax))

(***************************************************************************)
(* parse_llm_response                                                      *)
(***************************************************************************)
\* A fence at i, the tag json or nothing, whitespace, "[" at k, and a "]"
\* at e that whitespace and a fence follow.
FencedSpan(text, i, k, e) ==
    /\ i < k /\ k < e
    /\ text[i] = Fence /\ text[k] = "[" /\ text[e] = "]"
    /\ \A m \in (i + 1)..(k - 1) : IsSpace(text[m]) \/ (m = i + 1 /\ text[m] = "json")
    /\ \E j \in (e + 1)..Len(text) :
          text[j] = Fence /\ \A m \in (e + 1)..(j - 1) : IsSpace(text[m])

FencedSpans(text) ==
    {b \in (1..Len(text)) \X (1..Len(text)) \X (1..Len(text)) :
        FencedSpan(text, b[1], b[2], b[3])}

\* A fenced code block holding an array: such a span with no fence between
\* its "[" and its "]", so that the fence after e closes the block i opens.
FencedBlocks(text) ==
    {b \in FencedSpans(text) : \A m \in (b[2] + 1)..(b[3] - 1) : text[m] # Fence}

\* A bare [...]: a "[" at k and the first "]" after it at e.
BareArray(text, k, e) ==
    /\ k < e /\ text[k] = "[" /\ text[e] = "]"
    /\ \A m \in (k + 1)..(e - 1) : text[m] # "]"

\* The text decoded follows the precedence for the response text: the
\* first of the fenced candidates (up to its nearest end), else the first
\* bare array, else everything.
PrecedenceKept(text, fenced, json_str) ==
    IF fenced # {}
    THEN \E b \in fenced :
            /\ \A c \in fenced : b[1] < c[1] \/ (b[1] = c[1] /\ b[3] <= c[3])
            /\ json_str = SubSeq(text, b[2], b[3])
    ELSE IF \E k, e \in 1..Len(text) : BareArray(text, k, e)
    THEN \E k, e \in 1..Len(text) :
            /\ BareArray(text, k, e)
            /\ \A m \in 1..(k - 1) : text[m] # "["
            /\ json_str = SubSeq(text, k, e)
    ELSE json_str = strip(text)

\* C21 as stated: the text parse_llm_response decodes is the array of the
\* first fenced code block that holds one (with or without the json tag) if
\* there is such a block, otherwise the first bare [...] of the response,
\* otherwise the whole response stripped.
C21_FirstFencedBlock ==
    pResult.called /\ ~IsBlank(pResponse)
        => PrecedenceKept(pResponse, FencedBlocks(pResponse), pResult.json_str)

\* C21: the text parse_llm_response decodes starts at the "[" behind the
\* first fence (and optional json tag) from which some "]" directly before
\* a fence can be reached, and runs to the nearest such "]", whether or not
\* other fences lie in between; without such a fence it is the first bare
\* [...] of the response, otherwise the whole response stripped.
C21_ExtractionPrecedence ==
    pResult.called /\ ~IsBlank(pResponse)
        => PrecedenceKept(pResponse, FencedSpans(pResponse), pResult.json_str)

\* A bare array stands before the fenced block, and the block was taken.
C21_Witness ==
    /\ pResult.called /\ pResult.rule = "code_block"
    /\ pResponse[1] = "[" /\ pResponse[2] = "]"
    /\ pResult.patch # <<>>

\* C22: a plain JSON array of valid operations parses to exactly those
\* operations, in order, whatever JSON values they carry (arrays and nested
\* objects included).
C22_PlainArrayParses ==
    \A patch \in ParsePatches :
        pResult.called /\ pResponse = DumpPatch(patch)
            => pResult.err = "" /\ pResult.patch = patch

\* An operation the field checks are said to reject.
Rejected(x) ==
    \/ x.t # "obj"
    \/ x.t = "obj" /\ "op" \notin DOMAIN x.v
    \/ x.t = "obj" /\ "path" \notin DOMAIN x.v
    \/ /\ x.t = "obj" /\ "op" \in DOMAIN x.v /\ "value" \notin DOMAIN x.v
       /\ x.v["op"] # Str(<<"remove">>) /\ x.v["op"] # Str(<<"test">>)

\* The selected text is not valid JSON, not an array, or holds an
\* operation that is rejected.
Unparsable(d) ==
    \/ ~d.ok
    \/ d.ok /\ d.val.t # "arr"
    \/ d.ok /\ d.val.t = "arr" /\ \E i \in 1..Len(d.val.v) : Rejected(d.val.v[i])

\* C23: parse_llm_response raises ValueError exactly when the selected text
\* is not valid JSON, is not an array, or has an element that is not an
\* object, lacks op, lacks path, or lacks value while its op is neither
\* remove nor test; so a remove without value is accepted.
C23_ParseErrorExactly ==
    pResult.called /\ ~IsBlank(pResponse)
        => (pResult.err = "ValueError" <=> Unparsable(json_loads(pResult.json_str)))

\* A remove without value was accepted, next to another operation.
C23_Witness ==
    /\ pResult.called /\ pResult.err = ""
    /\ \E i \in 1..Len(pResult.patch) :
          pResult.patch[i].op = "remove" /\ pResult.patch[i].value = NoValue

\* C24: an empty or whitespace-only response gives the empty patch and no
\* error.
C24_BlankIsEmptyPatch ==
    pResult.called /\ (\A i \in 1..Len(pResponse) : IsSpace(pResponse[i]))
        => pResult.err = "" /\ pResult.patch = <<>>

\* A whitespace-only response was parsed.
C24_Witness ==
    /\ pResult.called /\ pResponse # <<>>
    /\ \A i \in 1..Len(pResponse) : IsSpace(pResponse[i])
    /\ pResult.patch = <<>>

(***************************************************************************)
(* apply_patch: the effect of the operations (checked under SpecCodec on   *)
(* a caller that applies without validating first).                        *)
(***************************************************************************)
\* apply_patch was called once, on the patch and document of the start, and
\* returned.
AppliedOk == Len(cCalls) = 1 /\ cCalls[1].fn = "apply" /\ cCalls[1].ok

\* What apply_patch ended with, as the plain document returned.
ApplyValue(r) ==
    IF r.raised # "" THEN [ok |-> FALSE, doc |-> NoValue]
    ELSE [ok |-> TRUE, doc |-> Resolve(r.patch, r.result)]

\* apply_patch(p2, d1) for the outcome r1 of a first apply_patch.
ThenApply(r1, p2) ==
    IF ~r1.ok THEN r1 ELSE ApplyValue(apply_patch(p2, r1.doc))

\* apply_patch(p2, apply_patch(p1, d))
InTwoSteps(p1, p2, d) == ThenApply(ApplyValue(apply_patch(p1, d)), p2)

SameWhenOk(r, doc) == r.ok => r.doc = doc

\* C25: operations apply left to right, each to the document the earlier
\* ones produced: apply_patch(p1 ++ p2, d) = apply_patch(p2, apply_patch(p1,
\* d)) when both succeed; the same append to an array applied twice appends
\* twice.
C25_LeftToRight ==
    AppliedOk =>
        /\ \A n \in 0..Len(cPatch0) :
              SameWhenOk(InTwoSteps(SubSeq(cPatch0, 1, n),
                                    SubSeq(cPatch0, n + 1, Len(cPatch0)), cDoc0),
                         cCalls[1].result)
        /\ (/\ Len(cPatch0) = 2 /\ cPatch0[1] = cPatch0[2]
            /\ cPatch0[1].op = "add" /\ cPatch0[1].path = <<"actors", "-">>)
              => cCalls[1].result.v["actors"].v
                   = cDoc0.v["actors"].v \o <<cPatch0[1].value, cPatch0[1].value>>

\* Two inserts at the head of the array, whose order shows in the result.
C25_Witness ==
    /\ AppliedOk /\ Len(cPatch0) = 2
    /\ cPatch0[1].op = "add" /\ cPatch0[2].op = "add"
    /\ cPatch0[1].path = <<"actors", "0">> /\ cPatch0[2].path = <<"actors", "0">>
    /\ cPatch0[1].value # cPatch0[2].value
    /\ cCalls[1].result.v["actors"].v[1] = cPatch0[2].value
    /\ cCalls[1].result.v["actors"].v[2] = cPatch0[1].value

\* One operation of the given kind was applied.
AppliedOne(kind) == AppliedOk /\ Len(cPatch0) = 1 /\ cPatch0[1].op = kind

\* Every member of the document but the one named key is as it was.
OthersKept(old, new, key) ==
    /\ (DOMAIN new.v) \ {key} = (DOMAIN old.v) \ {key}
    /\ \A k \in (DOMAIN old.v) \ {key} : new.v[k] = old.v[k]

\* The array new is old with val inserted at the 0-based index i.
InsertedAt(old, new, i, val) ==
    /\ Len(new) = Len(old) + 1
    /\ new[i + 1] = val
    /\ \A j \in 1..i : new[j] = old[j]
    /\ \A j \in (i + 1)..Len(old) : new[j + 1] = old[j]

\* The effect of add with the given path and value.
AddEffect(path, val, old, new) ==
    IF Len(path) = 1
    THEN /\ path[1] \in DOMAIN new.v /\ new.v[path[1]] = val
         /\ OthersKept(old, new, path[1])
    ELSE /\ OthersKept(old, new, path[1])
         /\ path[1] \in DOMAIN new.v
         /\ IF path[2] = "-"
            THEN InsertedAt(old.v[path[1]].v, new.v[path[1]].v, Len(old.v[path[1]].v), val)
            ELSE InsertedAt(old.v[path[1]].v, new.v[path[1]].v, TokenInt[path[2]], val)

\* C26: add on an array path ending in "-" makes the value the last element
\* and keeps the others in place; on an index i it inserts at i and shifts
\* the later elements right by one; on an object key it sets or creates the
\* key; the rest of the document is unchanged.
C26_AddSemantics ==
    (AppliedOne("add") /\ Len(cPatch0[1].path) \in {1, 2})
        => AddEffect(cPatch0[1].path, cPatch0[1].value, cDoc0, cCalls[1].result)

\* An insert at index 0 moved the two elements of the array to the right.
C26_Witness ==
    /\ AppliedOne("add") /\ cPatch0[1].path = <<"actors", "0">>
    /\ Len(cCalls[1].result.v["actors"].v) = 3
    /\ cCalls[1].result.v["actors"].v[3] = cDoc0.v["actors"].v[2]

\* The array new is old without the element at the 0-based index i.
RemovedAt(old, new, i) ==
    /\ Len(new) = Len(old) - 1
    /\ \A j \in 1..i : new[j] = old[j]
    /\ \A j \in (i + 2)..Len(old) : new[j - 1] = old[j]

\* The target of path exists in the document.
Exists(path, doc) ==
    /\ path[1] \in DOMAIN doc.v
    /\ Len(path) = 2 =>
          /\ doc.v[path[1]].t = "arr"
          /\ path[2] \in DOMAIN TokenInt
          /\ TokenInt[path[2]] < Len(doc.v[path[1]].v)

\* The effect of replace with the given path and value.
ReplaceEffect(path, val, old, new) ==
    /\ Exists(path, old)
    /\ OthersKept(old, new, path[1])
    /\ IF Len(path) = 1 THEN new.v[path[1]] = val
       ELSE /\ Len(new.v[path[1]].v) = Len(old.v[path[1]].v)
            /\ \A j \in 1..Len(old.v[path[1]].v) :
                  new.v[path[1]].v[j]
                    = IF j = TokenInt[path[2]] + 1 THEN val ELSE old.v[path[1]].v[j]

\* C27: remove at an array index deletes that element, shifts the later
\* ones left by one and shortens the array by one; replace needs an existing
\* target and changes nothing but it.
C27_RemoveReplaceSemantics ==
    /\ (AppliedOne("remove") /\ Len(cPatch0[1].path) = 2)
          => /\ OthersKept(cDoc0, cCalls[1].result, cPatch0[1].path[1])
             /\ RemovedAt(cDoc0.v[cPatch0[1].path[1]].v,
                          cCalls[1].result.v[cPatch0[1].path[1]].v,
                          TokenInt[cPatch0[1].path[2]])
    /\ (AppliedOne("replace") /\ Len(cPatch0[1].path) \in {1, 2})
          => ReplaceEffect(cPatch0[1].path, cPatch0[1].value, cDoc0, cCalls[1].result)

\* The first element was removed and the second took its place.
C27_Witness ==
    /\ AppliedOne("remove") /\ cPatch0[1].path = <<"actors", "0">>
    /\ cCalls[1].result.v["actors"].v = <<cDoc0.v["actors"].v[2]>>

(***************************************************************************)
(* normalize_patch                                                         *)
(***************************************************************************)
IsReplaceOn(operation, path) == operation.op = "replace" /\ operation.path = path
IsAddOrRemove(operation) == operation.op \in {"add", "remove"}

\* The positions of the replace operations on path.
ReplacesOn(patch, path) == {i \in 1..Len(patch) : IsReplaceOn(patch[i], path)}

\* The largest element of a non-empty set of numbers.
Greatest(S) == CHOOSE i \in S : \A j \in S : j <= i

\* C28: the output of normalize_patch holds at most one replace per path,
\* and it carries the value of the last replace on that path in the input.
C28_ReplacesCollapsed ==
    nResult.called =>
        \A path \in NormPaths :
            /\ Cardinality(ReplacesOn(nResult.patch, path)) <= 1
            /\ \A i \in ReplacesOn(nResult.patch, path) :
                  /\ ReplacesOn(nPatch, path) # {}
                  /\ nResult.patch[i].value
                       = nPatch[Greatest(ReplacesOn(nPatch, path))].value

\* Three operations, two of them replaces on one path with different
\* values, came out as two.
C28_Witness ==
    /\ nResult.called /\ Len(nPatch) = 3 /\ Len(nResult.patch) = 2
    /\ \E path \in NormPaths :
          /\ Cardinality(ReplacesOn(nPatch, path)) = 2
          /\ \E i, j \in ReplacesOn(nPatch, path) : nPatch[i].value # nPatch[j].value
          /\ ReplacesOn(nResult.patch, path) # {}

\* C29: every add and remove of the input is in the output of
\* normalize_patch, as often and in the same relative order, whatever the
\* paths and the replaces among them.
C29_AddRemoveKept ==
    nResult.called =>
        SelectSeq(nResult.patch, IsAddOrRemove) = SelectSeq(nPatch, IsAddOrRemove)

(***************************************************************************)
(* New sessions                                                            *)
(***************************************************************************)
\* The document has the members of the canonical empty document, all empty.
IsCanonicalEmpty(doc) ==
    /\ doc.t = "obj"
    /\ {"process_name", "process_goal", "scope", "actors", "systems", "main_flow",
        "exceptions", "metrics", "open_questions"} \subseteq DOMAIN doc.v
    /\ \A k \in {"process_name", "process_goal"} : doc.v[k] = Str(<<>>)
    /\ \A k \in {"actors", "systems", "main_flow", "exceptions", "metrics",
                 "open_questions"} : doc.v[k] = Arr(<<>>)
    /\ doc.v["scope"].t = "obj"
    /\ {"start_trigger", "end_condition", "in_scope", "out_of_scope"}
          \subseteq DOMAIN doc.v["scope"].v
    /\ \A k \in {"start_trigger", "end_condition"} : doc.v["scope"].v[k] = Str(<<>>)
    /\ \A k \in {"in_scope", "out_of_scope"} : doc.v["scope"].v[k] = Arr(<<>>)

\* C30: a session that comes into being has the canonical empty document:
\* empty process_name and process_goal, a scope with empty start_trigger,
\* end_condition, in_scope and out_of_scope, and empty actors, systems,
\* main_flow, exceptions, metrics and open_questions.
C30_NewSessionEmptyDocument ==
    [][\A s \in SessionIds :
          (s \notin DOMAIN sessions /\ s \in DOMAIN sessions')
              => IsCanonicalEmpty(sessions'[s].document)]_vars

\* A second session was made while the first one already holds text.
C30_Witness ==
    /\ DOMAIN sessions = {"s1", "s2"}
    /\ sessions["s1"].full_text # <<>>
    /\ sessions["s2"].full_text = <<>>
    /\ IsCanonicalEmpty(sessions["s2"].document)

(***************************************************************************)
(* Document, history and window of a cycle                                 *)
(***************************************************************************)
\* C31: a non-empty patch applied to a session's document, by the HTTP
\* handler or by either WebSocket branch, is the latest entry of the
\* session's patch history afterwards; without a successful apply neither
\* the document nor the history changes.
C31_HistoryFollowsDocument ==
    CycleDone =>
        /\ (last.applied /\ ~last.applyRaised /\ last.ret.patch # <<>>)
              => /\ last.histAfter # <<>>
                 /\ last.histAfter[Len(last.histAfter)] = last.ret.patch
        /\ ~(last.applied /\ ~last.applyRaised)
              => last.docAfter = last.docBefore /\ last.histAfter = last.histBefore

\* C32: in every cycle, whichever entry point started it, the text was
\* first appended to the session's transcription buffer, the append added
\* it, and the window given to process_transcription is get_tail() of the
\* buffer after that append.
C32_WindowIsTail ==
    CycleDone =>
        /\ last.full # last.textBefore
        /\ last.tail = get_tail(last.full, WindowSize)

\* A metadata key: k.startswith('_').
IsMetadataKey(k) == k \in {"_note"}

\* The operations of a patch that address a metadata key at the top level
\* or within scope.
MetadataOps(patch) ==
    {i \in 1..Len(patch) :
        \/ Len(patch[i].path) >= 1 /\ IsMetadataKey(patch[i].path[1])
        \/ Len(patch[i].path) >= 2 /\ patch[i].path[1] = "scope"
             /\ IsMetadataKey(patch[i].path[2])}

SessionIdle(s) == MidHandler("", s) = {}

\* C35: the view of a WebSocket client that has been connected to a session
\* since before its first patch converges to the session's document: every
\* patch applied to the document, by whichever handler, reaches the client
\* once and in order, so that whenever the session is idle the empty
\* document with the received document_patch messages applied is the
\* session's document.
C35_ClientViewConverges ==
    \A w \in WsConns :
        (pc[w] # "closed" /\ clientDoc[w].whole /\ SessionIdle(tsession[w]))
            => clientDoc[w].doc = sessions[tsession[w]].document

\* The documents a patch and its normal form are applied to: the empty
\* document, and the empty document with a name and an actor.
NormDocs ==
    {get_empty_document,
     Obj([get_empty_document.v EXCEPT !["process_name"] = Str(<<"k">>),
                                      !["actors"] = Arr(<<Str(<<"k">>)>>)])}

\* The operations of a patch with their paths as reference tokens, as
\* jsonpatch takes them up.
PatchRecords(patch) ==
    [i \in 1..Len(patch) |->
        [op |-> patch[i].op, path |-> PathParts[patch[i].path], value |-> patch[i].value]]

\* apply_patch(patch, d)
EffectOn(patch, d) == ApplyValue(apply_patch(PatchRecords(patch), d))

\* C36: normalize_patch preserves the effect of a patch: wherever
\* apply_patch(p, d) succeeds, apply_patch(normalize_patch(p), d) succeeds
\* with the same document, also when an add or a remove lies between two
\* replaces on one path.
C36_NormalizePreservesEffect ==
    nResult.called =>
        \A d \in NormDocs :
            EffectOn(nPatch, d).ok => EffectOn(nResult.patch, d) = EffectOn(nPatch, d)

(***************************************************************************)
(* The buffer with any window_size                                         *)
(***************************************************************************)
\* C37: get_tail() never returns more than window_size whitespace-delimited
\* tokens, whatever integer window_size the buffer was built with (0
\* included) and whatever it holds.
C37_TailWithinWindow ==
    bLast.fn = "get_tail" => Len(split(bLast.text)) <= bWindow

(***************************************************************************)
(* Sessions side by side                                                   *)
(***************************************************************************)
\* The handlers at work on session s: a WebSocket connection's handler of
\* that session, or the handler whose cycle on s has just ended.
WorkingOn(s) ==
    \/ \E w \in WsConns : pc[w] # "closed" /\ tsession[w] = s
    \/ last'.session = s

\* C38: sessions are isolated: a step that changes a session's transcript,
\* document, patch history or status is a step of a handler at work on
\* that session, and it leaves every other session as it was, also while a
\* handler of another session is suspended.
C38_SessionsIsolated ==
    [][\A s \in DOMAIN sessions :
          sessions'[s] # sessions[s] =>
              /\ WorkingOn(s)
              /\ \A u \in DOMAIN sessions \ {s} : sessions'[u] = sessions[u]]_vars

\* C38 witness: two sessions whose documents and patch histories have
\* changed and differ, with a handler of one suspended inside a message.
C38_Witness ==
    /\ DOMAIN sessions = SessionIds
    /\ \A s \in SessionIds : sessions[s].document # get_empty_document
                                /\ sessions[s].patch_history # <<>>
    /\ sessions["s1"].document # sessions["s2"].document
    /\ sessions["s1"].patch_history # sessions["s2"].patch_history
    /\ \E w \in WsConns : pc[w] \in {"audio_pre", "tr_pre"}

(***************************************************************************)
(* The session store                                                       *)
(***************************************************************************)
\* The store is full and none of its sessions has exceeded the timeout.
FullAndFresh(store, now, limit) ==
    /\ Cardinality(DOMAIN store) >= limit
    /\ \A id \in DOMAIN store : ~TimedOut(store[id], now)

\* C39: the session store never holds more than max_sessions sessions, and
\* create_session on a full store none of whose sessions has exceeded the
\* timeout raises ValueError and adds nothing.
C39_StoreWithinLimit ==
    /\ Cardinality(DOMAIN mgrSessions) <= max_sessions
    /\ Cardinality(DOMAIN mgrLast.after) <= max_sessions
    /\ (mgrLast.fn = "create" /\ FullAndFresh(mgrLast.before, mgrLast.at, max_sessions))
          => (mgrLast.raised /\ mgrLast.after = mgrLast.before)

\* C39 witness: create_session raised on a store of two sessions, one of
\* them used since its creation.
C39_Witness ==
    /\ mgrLast.fn = "create" /\ mgrLast.raised
    /\ Cardinality(DOMAIN mgrLast.before) = 2
    /\ \E id \in DOMAIN mgrLast.before : mgrLast.before[id].updated_at > 0
    /\ \E id \in DOMAIN mgrLast.before : mgrLast.before[id].updated_at < mgrLast.at

(***************************************************************************)
(* A session that is over                                                  *)
(***************************************************************************)
\* C40: once a session's status is stopped or expired it never is active
\* again, and no text or audio that comes in later changes the session's
\* transcript, document or patch history.
C40_OverStaysOver ==
    [][\A s \in DOMAIN sessions :
          sessions[s].status # "active" =>
              /\ sessions'[s].status # "active"
              /\ sessions'[s].full_text = sessions[s].full_text
              /\ sessions'[s].document = sessions[s].document
              /\ sessions'[s].patch_history = sessions[s].patch_history]_vars

=========================================================================
